---- MODULE Spec2Model ----
(***************************************************************************)
(* ForensicFlow, backend/ai_analysis: the ConversationManager, the         *)
(* ToolRegistry and the agent orchestration of AIService                   *)
(* (process_query_with_agent / process_natural_language_query).            *)
(*                                                                         *)
(* Ten specifications share this module:                                   *)
(*   SpecConv   one ConversationManager receiving add_exchange calls       *)
(*   SpecTools  one ToolRegistry receiving execute_tool calls              *)
(*   SpecGraph  one ToolRegistry receiving generate_network_graph calls    *)
(*   Spec       one AIService serving process_query_with_agent calls, one  *)
(*              step of the method body per action                         *)
(*   SpecAnyInput  the same service, called with every evidence list       *)
(*              the signature admits (records with null fields)            *)
(*   SpecFair   the agent entry point of SpecAnyInput, with the fairness   *)
(*              that lets a call under way take its next step              *)
(*   SpecWarm   the service started on a cache an earlier request filled   *)
(*   SpecInsights  one AIService serving a generate_insights call          *)
(*   SpecSearch one ToolRegistry receiving search_evidence calls           *)
(*   SpecPair   the service of Spec with a second request running          *)
(*              process_natural_language_query at the same time            *)
(* Confidences are in hundredths (0.9 is 90).                              *)
(***************************************************************************)
EXTENDS Integers, Sequences, FiniteSets, TLC

VARIABLES
    \* ---- ConversationManager (ai_service.py:21-28)
    max_exchanges,      \* deque maxlen
    exchanges,          \* the deque, oldest first
    query_count,
    clock,              \* datetime.now() as a logical clock
    added,              \* history: every exchange ever passed to add_exchange
    tracked_entities,   \* entity id -> mentions (0: not tracked)
    established_facts,  \* the set of facts
    fact_log,           \* history: the stored facts, oldest first
    hash_seed,          \* what orders the iteration of a set of strings
    \* ---- ToolRegistry (tools.py:16-19)
    execution_log,
    invocations,        \* history: one [tool, success] per execute_tool call
    last_result,        \* what the last execute_tool call returned
    tool_raised,        \* TRUE iff some execute_tool call let an exception out
    evidence_data,      \* the registry's evidence snapshot
    graph_results,      \* history: what each generate_network_graph returned
    search_calls,       \* history: params and result of each search_evidence
    \* ---- AIService.process_query_with_agent (ai_service.py:209-507)
    pc,                 \* position in the method body
    cfg,                \* use_gemini / use_openai / enable_agent_mode
    req,                \* the arguments of the call in progress
    first_part,         \* parts[0] of the first candidate, once read
    part_idx,           \* index of the next part the for loop reads
    unread,             \* parts the for loop never reached
    tool_results,
    iterations,
    embedded_component,
    reasoning_calls,    \* history: the external reasoning calls of this call
    outcome,            \* how the call ended
    except_at,          \* where the except clause (502-507) caught, if it did
    cache,              \* django cache: key -> result or NoEntry
    \* ---- AIService.generate_insights (ai_service.py:1659-1687)
    evidence_items,     \* the evidence list of the call
    patterns,           \* what _detect_patterns returned (line 1666)
    insights,           \* what generate_insights returned
    \* ---- a second request, served by another thread of the process
    other               \* its position, arguments and outcome

vars == <<max_exchanges, exchanges, query_count, clock, added,
          tracked_entities, established_facts, fact_log, hash_seed,
          execution_log, invocations, last_result, tool_raised,
          evidence_data, graph_results, search_calls,
          pc, cfg, req, first_part, part_idx, unread, tool_results,
          iterations, embedded_component, reasoning_calls, outcome,
          except_at, cache, evidence_items, patterns, insights, other>>

convVars  == <<max_exchanges, exchanges, query_count, clock, added,
               tracked_entities, established_facts, fact_log, hash_seed>>
toolVars  == <<execution_log, invocations, last_result, tool_raised>>
graphVars == <<evidence_data, graph_results, search_calls>>
insightVars == <<evidence_items, patterns, insights>>
pairVars  == <<other>>
agentVars == <<pc, cfg, req, first_part, part_idx, unread, tool_results,
               iterations, embedded_component, reasoning_calls, outcome,
               except_at, cache>>

\* ------------------------------------------------------------------ bounds
MaxCap == 3
MaxAdds == 5
MaxInvocations == 4
MaxParts == 6
MaxGraphItems == 3
MaxGraphCalls == 2
MaxInsightItems == 3
MaxSearchItems == 3

Min(a, b) == IF a < b THEN a ELSE b

None == "None"

\* no execute_tool call has returned yet
NoResult == [success |-> None]

\* =====================================================================
\* ConversationManager
\* =====================================================================

ResponseTruncation == 500

\* query and response texts: an identity and a length in characters
ConvQueries == {[text |-> "q1", len |-> 20], [text |-> "q2", len |-> 40]}
ConvResponses == {[text |-> "r1", len |-> 120],
                  [text |-> "r2", len |-> 500],
                  [text |-> "r3", len |-> 900],
                  [text |-> "r4", len |-> 2200]}

\* s[:k] of a text: the same text cut to at most k characters
Slice(t, k) == [text |-> t.text, len |-> Min(t.len, k)]

\* DequeAppend as a plain list would do it: nothing is evicted
DequeAppend_Unbounded(d, x, m) == Append(d, x)

\* collections.deque(maxlen=m).append(x)
DequeAppend(d, x, m) ==
    IF m = 0 THEN d
    ELSE IF Len(d) = m THEN Append(Tail(d), x)
    ELSE Append(d, x)

\* len(self.established_facts) > 50
FactCap == 50
\* [-40:]
FactKeep == 40
\* self.query_count % 5 == 0
SummaryEvery == 5
\* len(self.tracked_entities) >= 10
EntityTrigger == 10

\* the numbers a..b as a list
Upto(a, b) == [i \in 1..(b - a + 1) |-> a + i - 1]

\* What re.findall finds in a text with the four patterns of
\* _track_entities_in_text, pattern by pattern: entity ids
\* ('phone:+15550100', 'evidence_id:12', ...) as numbers 1..11.
EntityIds == 1..11

EntityMatches(text) ==
    CASE text.text = "q1" -> <<1, 2>>
      [] text.text = "q2" -> <<>>
      [] text.text = "r1" -> <<3, 4, 5, 6>>
      [] text.text = "r2" -> <<1, 7, 8, 9>>
      [] text.text = "r3" -> <<10, 11, 3, 3>>
      [] text.text = "r4" -> <<>>

\* What re.findall finds in a response with the three fact_patterns, pattern
\* by pattern: sentences as numbers. 0 is a sentence of at most 20
\* characters, 1..112 are longer sentences in lower case and 200 + f is the
\* sentence f with capitals (every match starts with one; the facts of a
\* response are given by their lower-case numbers unless the same sentence
\* occurs in two spellings).
FactMatches(response) ==
    CASE response.text = "r1" -> <<0, 201, 1>>
      [] response.text = "r2" -> Upto(2, 21)
      [] response.text = "r3" -> Upto(22, 51)
      [] response.text = "r4" -> Upto(53, 112)

\* match.strip().lower()
strip_lower(match) == IF match > 200 THEN match - 200 ELSE match

\* len(fact) > 20
Meaningful(fact) == fact # 0

\* the facts lines 58-64 add for a response, in the order they add them
NewFacts(response) ==
    LET matches == FactMatches(response)
        facts == [i \in 1..Len(matches) |-> strip_lower(matches[i])]
    IN SelectSeq(SubSeq(facts, 1, Len(facts)), Meaningful)

\* Where list(a set of strings) puts a fact: by the hash of the string,
\* which PYTHONHASHSEED fixes for the life of the process. 1 puts the facts
\* in the order of their numbers, 112 in the opposite order, 37 scatters
\* them (113 is the first prime above the largest number).
HashSeeds == {1, 37, 112}

HashKey(fact) == (fact * hash_seed) % 113

\* set(list(facts)[-keep:])
LastOfSet(facts, keep) ==
    {f \in facts :
        Cardinality({g \in facts : HashKey(g) > HashKey(f)}) < keep}

\* _extract_established_facts with the size test made before the facts of
\* the response are added
_extract_established_facts_TrimFirst(facts, response) ==
    LET trimmed == IF Cardinality(facts) > FactCap
                   THEN LastOfSet(facts, FactKeep) ELSE facts
    IN trimmed \cup {NewFacts(response)[i] : i \in 1..Len(NewFacts(response))}

\* ConversationManager._extract_established_facts: the set it leaves
_extract_established_facts(facts, response) ==
    LET new == NewFacts(response)
        all == facts \cup {new[i] : i \in 1..Len(new)}
    IN IF Cardinality(all) > FactCap THEN LastOfSet(all, FactKeep) ELSE all

\* the facts in the order they were established, once the facts of a
\* response are in: a fact already stored keeps its place
Established(log, stored, response) ==
    LET new == NewFacts(response)
        firsts == SelectSeq([i \in 1..Len(new) |-> i], LAMBDA i :
                      /\ new[i] \notin stored
                      /\ \A j \in 1..(i - 1) : new[j] # new[i])
    IN log \o [k \in 1..Len(firsts) |-> new[firsts[k]]]

RECURSIVE TrackMatches(_, _, _)
\* lines 82-93 for the matches from the k-th on
TrackMatches(tracked, matches, k) ==
    IF k > Len(matches) THEN tracked
    ELSE TrackMatches([tracked EXCEPT ![matches[k]] = @ + 1], matches, k + 1)

\* ConversationManager._track_entities_in_text
_track_entities_in_text(tracked, text) ==
    TrackMatches(tracked, EntityMatches(text), 1)

\* len(self.tracked_entities)
TrackedCount == Cardinality({e \in EntityIds : tracked_entities[e] > 0})

\* the test without the lower limit on query_count
should_offer_proactive_summary_AtZero ==
    \/ query_count % SummaryEvery = 0
    \/ TrackedCount >= EntityTrigger

\* ConversationManager.should_offer_proactive_summary
should_offer_proactive_summary ==
    \/ query_count >= SummaryEvery /\ query_count % SummaryEvery = 0
    \/ TrackedCount >= EntityTrigger

\* ConversationManager.__init__
ConvInit ==
    /\ max_exchanges \in 0..MaxCap
    /\ exchanges = <<>>
    /\ query_count = 0
    /\ clock = 0
    /\ added = <<>>
    /\ tracked_entities = [e \in EntityIds |-> 0]
    /\ established_facts = {}
    /\ fact_log = <<>>
    /\ hash_seed \in HashSeeds

\* ConversationManager.add_exchange
add_exchange(query, response) ==
    LET exchange == [query |-> query, response |-> response,
                     timestamp |-> clock + 1]
    IN /\ Len(added) < MaxAdds
       /\ exchanges' = DequeAppend(exchanges, exchange, max_exchanges)
       /\ query_count' = query_count + 1
       /\ clock' = clock + 1
       /\ added' = Append(added, exchange)
       /\ tracked_entities' =
              _track_entities_in_text(
                  _track_entities_in_text(tracked_entities, query), response)
       /\ established_facts' =
              _extract_established_facts(established_facts, response)
       /\ fact_log' = SelectSeq(Established(fact_log, established_facts,
                                            response),
                                LAMBDA f : f \in established_facts')
       /\ UNCHANGED <<max_exchanges, hash_seed>>

\* the calls made: every query and every response occurs in one
ConvCalls ==
    {c \in [query : ConvQueries, response : ConvResponses] :
        <<c.query.text, c.response.text>> \in
            {<<"q1", "r1">>, <<"q2", "r2">>, <<"q1", "r3">>, <<"q2", "r4">>}}

AddExchange ==
    /\ \E c \in ConvCalls : add_exchange(c.query, c.response)
    /\ UNCHANGED <<toolVars, graphVars, agentVars, insightVars, pairVars>>

RECURSIVE FormatHistory(_)
\* ConversationManager.get_conversation_history_for_prompt
FormatHistory(exs) ==
    IF exs = <<>> THEN <<>>
    ELSE <<[role |-> "user", content |-> Head(exs).query],
           [role |-> "assistant",
            content |-> Slice(Head(exs).response, ResponseTruncation)]>>
         \o FormatHistory(Tail(exs))

get_conversation_history_for_prompt == FormatHistory(exchanges)

\* =====================================================================
\* ToolRegistry
\* =====================================================================

\* keys of tool_methods
tool_methods == {"generate_network_graph", "generate_timeline",
                 "search_evidence", "analyze_pattern",
                 "get_entity_details", "format_report_section"}

\* names a caller may pass that are not registered; None is a functionCall
\* without a name
UnknownNames == {"no_such_tool", None}

ToolNames == tool_methods \cup UnknownNames

\* what running the tool method does: it returns its data or it raises
ToolBehaviours == {"returns", "raises"}

\* the 'type' of the data a tool returns
DataType(name) ==
    CASE name = "generate_network_graph" -> "network"
      [] name = "generate_timeline"      -> "timeline"
      [] name = "search_evidence"        -> "evidence_list"
      [] name = "analyze_pattern"        -> "pattern_analysis"
      [] name = "get_entity_details"     -> "entity_details"
      [] OTHER                           -> "report_section"

\* execute_tool without its except clause: the exception of a tool leaves
\* the method
execute_tool_Uncaught(log, tool_name, behaviour) ==
    IF tool_name \notin tool_methods
    THEN [raised |-> FALSE,
          result |-> [success |-> FALSE,
                      error |-> "Unknown tool",
                      tool_name |-> tool_name,
                      user_message |-> [text |-> "I don't have a tool called",
                                        names |-> tool_name]],
          log |-> log]
    ELSE IF behaviour = "raises"
    THEN [raised |-> TRUE, result |-> NoResult, log |-> log]
    ELSE [raised |-> FALSE,
          result |-> [success |-> TRUE,
                      tool_name |-> tool_name,
                      data |-> [type |-> DataType(tool_name)],
                      execution_time |-> "elapsed",
                      timestamp |-> "now",
                      user_message |-> [text |-> "summary of the work",
                                        names |-> tool_name]],
          log |-> Append(log, [tool |-> tool_name, parameters |-> "params",
                               success |-> TRUE, time |-> "elapsed"])]

\* ToolRegistry.execute_tool: the returned dict, the log afterwards, and
\* whether an exception left the method
execute_tool(log, tool_name, behaviour) ==
    IF tool_name \notin tool_methods
    THEN [raised |-> FALSE,
          result |-> [success |-> FALSE,
                      error |-> "Unknown tool",
                      tool_name |-> tool_name,
                      user_message |-> [text |-> "I don't have a tool called",
                                        names |-> tool_name]],
          log |-> log]
    ELSE IF behaviour = "raises"
    THEN [raised |-> FALSE,
          result |-> [success |-> FALSE,
                      tool_name |-> tool_name,
                      error |-> "str(e)",
                      execution_time |-> "elapsed",
                      timestamp |-> "now",
                      user_message |-> [text |-> "encountered an error",
                                        names |-> tool_name]],
          log |-> Append(log, [tool |-> tool_name, parameters |-> "params",
                               success |-> FALSE, error |-> "str(e)"])]
    ELSE [raised |-> FALSE,
          result |-> [success |-> TRUE,
                      tool_name |-> tool_name,
                      data |-> [type |-> DataType(tool_name)],
                      execution_time |-> "elapsed",
                      timestamp |-> "now",
                      user_message |-> [text |-> "summary of the work",
                                        names |-> tool_name]],
          log |-> Append(log, [tool |-> tool_name, parameters |-> "params",
                               success |-> TRUE, time |-> "elapsed"])]

\* ToolRegistry.__init__
ToolInit ==
    /\ execution_log = <<>>
    /\ invocations = <<>>
    /\ last_result = NoResult
    /\ tool_raised = FALSE
    /\ evidence_data = <<>>
    /\ graph_results = <<>>
    /\ search_calls = <<>>

\* one execute_tool call made directly on the registry
ExecuteTool ==
    /\ Len(invocations) < MaxInvocations
    /\ \E n \in ToolNames, b \in ToolBehaviours :
         LET r == execute_tool(execution_log, n, b)
         IN /\ n \notin tool_methods => b = "returns"
            /\ execution_log' = r.log
            /\ last_result' = r.result
            /\ tool_raised' = (tool_raised \/ r.raised)
            /\ invocations' = Append(invocations,
                                     [tool |-> n, success |-> r.result.success,
                                      behaviour |-> b])
    /\ UNCHANGED <<convVars, graphVars, agentVars, insightVars, pairVars>>

\* ---------------------------------------------------------------------
\* ToolRegistry.generate_network_graph (tools.py:147-300), called with no
\* nodes or edges in params
\* ---------------------------------------------------------------------

\* self.evidence_data[:100]
ItemCap == 100
\* node_list[:30]
NodeCap == 30
\* filtered_edges[:50]
EdgeCap == 50
\* data['evidence_ids'][:5]
EdgeEvidenceCap == 5

\* s[:n]
Take(s, n) == SubSeq(s, 1, Min(n, Len(s)))

\* a list given element by element, as a list value
AsList(f) == SubSeq(f, 1, Len(f))

\* Node ids ('type:value', 'source:...', 'device:...') are numbers here:
\* 1..41 entity values, 101 and 102 sources, 201 a device; 0 is an entity
\* value of at most two characters, or a source / device that is empty or
\* 'Unknown'. An entity of type 'source' has the node id of that source.
LongEnough(e_value) == e_value # 0

\* the evidence records the lists are drawn from: three groups of entities
\* (the third names the last entity of the second), a record linking the
\* groups, a record that lists one entity twice, a record with a short
\* value and an entity naming its own source
ItemKinds ==
    {[entities |-> [i \in 1..15 |-> i],      source |-> 101, device |-> 0],
     [entities |-> [i \in 1..15 |-> 15 + i], source |-> 101, device |-> 201],
     [entities |-> [i \in 1..12 |-> 29 + i], source |-> 102, device |-> 0],
     [entities |-> <<1, 16, 31>>,            source |-> 0,   device |-> 0],
     [entities |-> <<1, 1, 2>>,              source |-> 0,   device |-> 0],
     [entities |-> <<0, 2, 101>>,            source |-> 101, device |-> 0]}

\* the record a long list is filled with
BulkItem == [entities |-> <<3, 4>>, source |-> 0, device |-> 0]

\* how many BulkItem records precede the others
BulkSizes == {0, ItemCap - 1}

\* str(item.get('id', '')): the records of a list are numbered in order
WithIds(items) ==
    AsList([i \in 1..Len(items) |->
               [id |-> i, entities |-> items[i].entities,
                source |-> items[i].source, device |-> items[i].device]])

\* lines 187-236: item_entities of one record, in the order appended
ItemEntities(item) ==
    SelectSeq(item.entities, LongEnough)
    \o (IF item.source # 0 THEN <<item.source>> ELSE <<>>)
    \o (IF item.device # 0 THEN <<item.device>> ELSE <<>>)

\* lines 198-207: the node is created at its first mention, then
\* mentions += 1 and the item id is appended
AddMention(nodes, node_id, item_id) ==
    IF \E i \in 1..Len(nodes) : nodes[i].id = node_id
    THEN LET i == CHOOSE k \in 1..Len(nodes) : nodes[k].id = node_id
         IN [nodes EXCEPT ![i] = [@ EXCEPT !.mentions = @ + 1,
                                           !.evidence_ids = Append(@, item_id)]]
    ELSE Append(nodes, [id |-> node_id, mentions |-> 1,
                        evidence_ids |-> <<item_id>>])

\* The loops below run over a range lo..hi in order. The range is halved and
\* the left half is evaluated (its length is asked for) before the right
\* half starts, which keeps TLC's evaluation shallow; the order is the
\* loop's.

\* the entities ents[lo..hi] of one record mentioned, in order
RECURSIVE AddMentions(_, _, _, _, _)
AddMentions(nodes, ents, lo, hi, item_id) ==
    IF lo > hi THEN nodes
    ELSE IF lo = hi THEN AddMention(nodes, ents[lo], item_id)
    ELSE LET mid == (lo + hi) \div 2
             left == AddMentions(nodes, ents, lo, mid, item_id)
         IN IF Len(left) >= 0
            THEN AddMentions(left, ents, mid + 1, hi, item_id)
            ELSE left

\* tuple(sorted([id1, id2]))
PairKey(id1, id2) == IF id1 <= id2 THEN <<id1, id2>> ELSE <<id2, id1>>

\* lines 241-249: entity_cooccurrence[pair_key]['count'] += 1
AddCooccurrence(co, pair_key, item_id) ==
    IF \E i \in 1..Len(co) : co[i].key = pair_key
    THEN LET i == CHOOSE k \in 1..Len(co) : co[k].key = pair_key
         IN [co EXCEPT ![i] = [@ EXCEPT !.count = @ + 1,
                                        !.evidence_ids = Append(@, item_id)]]
    ELSE Append(co, [key |-> pair_key, count |-> 1,
                     evidence_ids |-> <<item_id>>])

\* lines 239-240: for i, ... in enumerate(item_entities):
\*                    for ... in item_entities[i+1:]
\* the pairs of positions i < j, in the order the two loops visit them
RECURSIVE PositionPairs(_, _)
PositionPairs(ents, i) ==
    IF i >= Len(ents) THEN <<>>
    ELSE [j \in 1..(Len(ents) - i) |-> <<ents[i], ents[i + j]>>]
         \o PositionPairs(ents, i + 1)

\* the pairs pairs[lo..hi] counted, in order
RECURSIVE AddPairs(_, _, _, _, _)
AddPairs(co, pairs, lo, hi, item_id) ==
    IF lo > hi THEN co
    ELSE IF lo = hi
    THEN AddCooccurrence(co, PairKey(pairs[lo][1], pairs[lo][2]), item_id)
    ELSE LET mid == (lo + hi) \div 2
             left == AddPairs(co, pairs, lo, mid, item_id)
         IN IF Len(left) >= 0
            THEN AddPairs(left, pairs, mid + 1, hi, item_id)
            ELSE left

\* lines 179-254: the body of the loop for one record
Pass1Item(acc, item) ==
    LET ents == ItemEntities(item)
        pairs == PositionPairs(ents, 1)
    IN [nodes |-> AddMentions(acc.nodes, ents, 1, Len(ents), item.id),
        co |-> AddPairs(acc.co, pairs, 1, Len(pairs), item.id)]

\* line 178: pass 1 over the records items[lo..hi], in order
RECURSIVE Pass1(_, _, _, _)
Pass1(acc, items, lo, hi) ==
    IF lo > hi THEN acc
    ELSE IF lo = hi THEN Pass1Item(acc, items[lo])
    ELSE LET mid == (lo + hi) \div 2
             left == Pass1(acc, items, lo, mid)
         IN IF Len(left.nodes) + Len(left.co) >= 0
            THEN Pass1(left, items, mid + 1, hi)
            ELSE left

\* lines 257-271: one edge per key of entity_cooccurrence
Pass2(co) ==
    AsList([i \in 1..Len(co) |->
               [source |-> co[i].key[1], target |-> co[i].key[2],
                weight |-> co[i].count,
                evidence_ids |-> Take(co[i].evidence_ids, EdgeEvidenceCap)]])

\* list.sort(key=..., reverse=True): by descending key, equal keys in their
\* original order. Rank(keys)[i] is the place element i is moved to.
Rank(keys) ==
    AsList([i \in 1..Len(keys) |->
               1 + Cardinality({j \in 1..Len(keys) :
                                   \/ keys[j] > keys[i]
                                   \/ keys[j] = keys[i] /\ j < i})])

SortDescending(seq, keys) ==
    LET rank == Rank(keys)
    IN AsList([p \in 1..Len(seq) |->
                  seq[CHOOSE i \in 1..Len(seq) : rank[i] = p]])

\* the node list cut to its first 30 without the sort
TopNodes_Unsorted(node_list) == Take(node_list, NodeCap)

\* lines 277-278: sort by mentions, keep the first 30
TopNodes(node_list) ==
    Take(SortDescending(node_list,
                        AsList([i \in 1..Len(node_list) |->
                                   node_list[i].mentions])),
         NodeCap)

\* lines 288-289: sort by weight, keep the first 50
TopEdges(edges) ==
    Take(SortDescending(edges,
                        AsList([i \in 1..Len(edges) |-> edges[i].weight])),
         EdgeCap)

\* lines 281-286: the edges between kept nodes
FilterEdges(edges, node_list) ==
    LET node_ids == {node_list[i].id : i \in 1..Len(node_list)}
    IN SelectSeq(edges, LAMBDA e : e.source \in node_ids
                                   /\ e.target \in node_ids)

\* generate_network_graph({}) on a registry holding evidence
generate_network_graph(evidence) ==
    LET p == Pass1([nodes |-> <<>>, co |-> <<>>], evidence, 1,
                   Min(Len(evidence), ItemCap))
        node_list == TopNodes(p.nodes)
        filtered_edges == TopEdges(FilterEdges(Pass2(p.co), node_list))
    IN [type |-> "network", nodes |-> node_list, edges |-> filtered_edges,
        node_count |-> Len(node_list), edge_count |-> Len(filtered_edges)]

\* ToolRegistry(evidence_data=...) for the lists of the model
GraphInit ==
    /\ \E n \in 0..MaxGraphItems, bulk \in BulkSizes :
         \E base \in [1..n -> ItemKinds] :
             evidence_data = WithIds([i \in 1..bulk |-> BulkItem] \o base)
    /\ graph_results = <<>>
    /\ search_calls = <<>>
    /\ execution_log = <<>>
    /\ invocations = <<>>
    /\ last_result = NoResult
    /\ tool_raised = FALSE

\* a generate_network_graph call that drops the records it has read
GenerateNetworkGraph_Consuming ==
    /\ Len(graph_results) < MaxGraphCalls
    /\ graph_results' = Append(graph_results,
                               generate_network_graph(evidence_data))
    /\ evidence_data' = IF evidence_data = <<>> THEN evidence_data
                        ELSE Tail(evidence_data)
    /\ UNCHANGED search_calls
    /\ UNCHANGED <<convVars, toolVars, agentVars, insightVars, pairVars>>

\* one generate_network_graph call: it reads self.evidence_data and writes
\* no attribute of the registry
GenerateNetworkGraph ==
    /\ Len(graph_results) < MaxGraphCalls
    /\ graph_results' = Append(graph_results,
                               generate_network_graph(evidence_data))
    /\ UNCHANGED <<evidence_data, search_calls>>
    /\ UNCHANGED <<convVars, toolVars, agentVars, insightVars, pairVars>>

\* ---------------------------------------------------------------------
\* ToolRegistry.search_evidence (tools.py:418-482)
\* ---------------------------------------------------------------------

\* params.get('limit', 50)
DefaultLimit == 50

\* str.lower() on the words of the model
Lower(word) ==
    CASE word = "Wallet" -> "wallet"
      [] word = "SMS" -> "sms"
      [] OTHER -> word

\* query in field, for a field given by its words; the queries of the model
\* are single words
Within(query, field) == \E i \in 1..Len(field) : Lower(field[i]) = query

\* Evidence records as search_evidence reads them: content and the values
\* of the entities by their words, source, device and type as one word
\* each, timestamp as the rank of the ISO string in string order (0 for a
\* record without one, '' being the least string).
SearchKinds ==
    { [content |-> <<"Wallet", "transfer">>, source |-> "chat",
       device |-> "phone", type |-> "SMS", entities |-> <<>>,
       timestamp |-> 1],
      [content |-> <<"hello">>, source |-> "log", device |-> "phone",
       type |-> "call", entities |-> <<"Wallet">>, timestamp |-> 2],
      [content |-> <<"hello">>, source |-> "chat", device |-> "wallet",
       type |-> "sms", entities |-> <<>>, timestamp |-> 3],
      [content |-> <<"transfer">>, source |-> "chat", device |-> "phone",
       type |-> "call", entities |-> <<"hello">>, timestamp |-> 0] }

\* sixty records alike, more than the default limit
SearchBulk ==
    [i \in 1..60 |->
        [content |-> <<"wallet">>, source |-> "chat", device |-> "phone",
         type |-> "sms", entities |-> <<>>, timestamp |-> 2]]

\* The params of a call: query ('' when absent), evidence_types, date_range
\* (start and end 0 when the key is absent or '', given FALSE for no
\* date_range or an empty one) and limit (has_limit FALSE when absent).
SearchParams ==
    [query : {"", "Wallet"},
     evidence_types : {<<>>, <<"SMS">>},
     date_range : {[given |-> FALSE, start |-> 0, end |-> 0],
                   [given |-> TRUE, start |-> 2, end |-> 0],
                   [given |-> TRUE, start |-> 1, end |-> 2]},
     has_limit : {TRUE},
     limit : {-1, 0, 1, 2}]
    \cup [query : {"", "Wallet"},
          evidence_types : {<<>>, <<"SMS">>},
          date_range : {[given |-> FALSE, start |-> 0, end |-> 0]},
          has_limit : {FALSE},
          limit : {0}]

\* lines 432-464: the record passes the three filters
PassesFilters(item, params) ==
    LET query == Lower(params.query)
        evidence_types == [i \in 1..Len(params.evidence_types) |->
                              Lower(params.evidence_types[i])]
    IN /\ query # "" =>
            \/ Within(query, item.content)
            \/ Within(query, <<item.source>>)
            \/ Within(query, <<item.device>>)
            \/ Within(query, <<item.type>>)
            \/ Within(query, item.entities)
       /\ evidence_types # <<>> =>
            \E i \in 1..Len(evidence_types) :
                evidence_types[i] = Lower(item.type)
       /\ params.date_range.given =>
            /\ ~(params.date_range.start # 0
                 /\ item.timestamp < params.date_range.start)
            /\ ~(params.date_range.end # 0
                 /\ item.timestamp > params.date_range.end)

RECURSIVE SearchLoop(_, _, _, _, _, _)
\* the loop at 431-469 over the records lo..hi: filtered, and whether the
\* break at 469 was taken
SearchLoop(acc, items, params, limit, lo, hi) ==
    IF acc.broke \/ lo > hi THEN acc
    ELSE IF lo = hi
    THEN IF PassesFilters(items[lo], params)
         THEN [filtered |-> Append(acc.filtered, items[lo]),
               broke |-> Len(acc.filtered) + 1 >= limit]
         ELSE acc
    ELSE LET mid == (lo + hi) \div 2
             left == SearchLoop(acc, items, params, limit, lo, mid)
         IN IF left.broke THEN left
            ELSE SearchLoop(left, items, params, limit, mid + 1, hi)

\* ToolRegistry.search_evidence
search_evidence(items, params) ==
    LET limit == IF params.has_limit THEN params.limit ELSE DefaultLimit
        filtered == SearchLoop([filtered |-> <<>>, broke |-> FALSE],
                               items, params, limit, 1, Len(items)).filtered
    IN [type |-> "evidence_list", evidence |-> filtered,
        count |-> Len(filtered), query |-> Lower(params.query)]

\* ToolRegistry(evidence_data=...) for the lists of the model
SearchInit ==
    /\ \E n \in 0..MaxSearchItems, bulk \in {<<>>, SearchBulk} :
         \E base \in [1..n -> SearchKinds] :
             evidence_data = SubSeq(base \o bulk, 1, n + Len(bulk))
    /\ graph_results = <<>>
    /\ search_calls = <<>>
    /\ execution_log = <<>>
    /\ invocations = <<>>
    /\ last_result = NoResult
    /\ tool_raised = FALSE

\* one search_evidence call
SearchEvidence ==
    /\ search_calls = <<>>
    /\ \E params \in SearchParams :
         search_calls' = <<[params |-> params,
                            result |-> search_evidence(evidence_data, params)]>>
    /\ UNCHANGED <<evidence_data, graph_results>>
    /\ UNCHANGED <<convVars, toolVars, agentVars, insightVars, pairVars>>

\* =====================================================================
\* AIService
\* =====================================================================

\* self.max_tool_iterations
max_tool_iterations == 5

\* AIService.__init__ plus the settings it reads: the configurations a
\* deployment can have
Configs ==
    {[use_gemini |-> TRUE,  use_openai |-> FALSE, enable_agent_mode |-> TRUE],
     [use_gemini |-> TRUE,  use_openai |-> FALSE, enable_agent_mode |-> FALSE],
     [use_gemini |-> FALSE, use_openai |-> TRUE,  enable_agent_mode |-> TRUE],
     [use_gemini |-> FALSE, use_openai |-> FALSE, enable_agent_mode |-> TRUE]}

\* Queries by the features the code tests: a phrase of ambiguous_patterns
\* occurs in it, it has fewer than 5 words, it names a visualisation
\* ('graph', 'network', 'timeline', 'visualiz'), _extract_keywords finds
\* a keyword in it
Queries ==
    {[text |-> "who paid the courier in march and how much",
      ambiguous_phrase |-> FALSE, short |-> FALSE, viz |-> FALSE,
      keywords |-> TRUE],
     [text |-> "analyze everything",
      ambiguous_phrase |-> TRUE, short |-> TRUE, viz |-> FALSE,
      keywords |-> TRUE],
     [text |-> "show network graph",
      ambiguous_phrase |-> FALSE, short |-> TRUE, viz |-> TRUE,
      keywords |-> TRUE]}

\* Evidence lists by what the code reads of them: the ids (the cache key),
\* the length, how many items a keyword of the query occurs in, and whether
\* the first record has a missing or a null 'content'
EvidenceShapes == {"ok", "missing_content", "null_content"}

CallerEvidence ==
    {[ids |-> "none",   n |-> 0,  relevant |-> 0,  shape |-> "ok"],
     [ids |-> "case5",  n |-> 5,  relevant |-> 1,  shape |-> "ok"],
     [ids |-> "case20", n |-> 20, relevant |-> 0,  shape |-> "ok"],
     [ids |-> "case21", n |-> 21, relevant |-> 21, shape |-> "ok"],
     [ids |-> "case51", n |-> 51, relevant |-> 17, shape |-> "ok"]}

AnyEvidence ==
    {[ids |-> "none",   n |-> 0,  relevant |-> 0,  shape |-> "ok"],
     [ids |-> "case21", n |-> 21, relevant |-> 21, shape |-> "ok"],
     [ids |-> "case5",  n |-> 5,  relevant |-> 1,  shape |-> "missing_content"],
     [ids |-> "case5",  n |-> 5,  relevant |-> 1,  shape |-> "null_content"],
     [ids |-> "case21", n |-> 21, relevant |-> 21, shape |-> "null_content"]}

\* conversation_history as the code reads it: None or empty (line 752 skips
\* the context), or the earlier exchanges of the session
Histories == {"none", "prior"}

\* the arguments of one call
Requests(evidence) ==
    [query : Queries, evidence : evidence, history : Histories]

\* Texts the reasoning capability answers with, by what the code reads of
\* them: the text names the id of an evidence item, is longer than 200
\* characters, holds 'pattern' / 'connection' / 'relationship', holds
\* 'cannot generate' / 'textual representation'
FirstTexts ==
    {[id |-> "brief",    cites |-> FALSE, long |-> FALSE, pattern |-> FALSE,
      cannot |-> FALSE],
     [id |-> "detailed", cites |-> TRUE,  long |-> TRUE,  pattern |-> TRUE,
      cannot |-> FALSE],
     [id |-> "refusal",  cites |-> FALSE, long |-> FALSE, pattern |-> FALSE,
      cannot |-> TRUE]}

\* the text of a part that has none
NoText == [id |-> "none", cites |-> FALSE, long |-> FALSE, pattern |-> FALSE,
           cannot |-> FALSE]

SynthesisText == [id |-> "synthesis", cites |-> TRUE, long |-> TRUE,
                  pattern |-> TRUE, cannot |-> FALSE]

GeminiText == [id |-> "analysis", cites |-> TRUE, long |-> TRUE,
               pattern |-> FALSE, cannot |-> FALSE]

\* What one external reasoning round trip can do: requests.post raises
\* (network failure, timeout), the status is not 200, the body is not JSON,
\* the JSON has no candidate, the candidate lacks the fields read, or the
\* response is well formed
CallOutcomes == {"exception", "non200", "bad_json", "no_candidates",
                 "bad_candidate", "ok"}

\* the tools the reasoning capability asks for in the model
RequestedNames == {"generate_network_graph", "no_such_tool"}

\* the round trips of _query_gemini and _query_openai, which treat every
\* failure alike
QueryOutcomes == {"exception", "non200", "ok"}

\* _check_query_ambiguity asking for a clarification only above 50 items
_check_query_ambiguity_Over50(query, evidence) ==
    LET is_ambiguous == \/ query.ambiguous_phrase
                        \/ (evidence.n > 50 /\ query.short)
    IN [is_ambiguous |-> is_ambiguous,
        should_clarify |-> (is_ambiguous /\ evidence.n > 50)]

\* AIService._check_query_ambiguity
_check_query_ambiguity(query, evidence) ==
    LET is_ambiguous == \/ query.ambiguous_phrase
                        \/ (evidence.n > 50 /\ query.short)
    IN [is_ambiguous |-> is_ambiguous,
        should_clarify |-> (is_ambiguous /\ evidence.n > 20)]

\* AIService._format_evidence_for_ai: TRUE iff it raises; item.get('content',
\* '')[:500] fails on a null content among the first max_items records
FormatEvidenceRaises(evidence, max_items) ==
    evidence.n > 0 /\ max_items > 0 /\ evidence.shape = "null_content"

\* AIService._calculate_confidence, in hundredths
_calculate_confidence(text, evidence) ==
    LET evidence_mentioned == IF text.cites /\ evidence.n > 0 THEN 1 ELSE 0
        c1 == 70 + (IF evidence_mentioned > 0 THEN 10 ELSE 0)
        c2 == c1 + (IF text.long THEN 10 ELSE 0)
        c3 == c2 + (IF evidence.n > 5 /\ text.pattern THEN 5 ELSE 0)
    IN Min(95, c3)

\* AIService._fallback_query: it raises on a null content
\* (item.get('content', '').lower()), else returns the keyword summary
_fallback_query(query, evidence) ==
    LET relevant == IF query.keywords THEN evidence.relevant ELSE 0
    IN IF evidence.n > 0 /\ evidence.shape = "null_content"
       THEN [raised |-> TRUE]
       ELSE IF relevant = 0
       THEN [raised |-> FALSE,
             result |-> [summary |-> [kind |-> "no_matches"],
                         confidence |-> 30]]
       ELSE [raised |-> FALSE,
             result |-> [summary |-> [kind |-> "keyword_summary",
                                      found |-> relevant],
                         confidence |->
                             Min(85, 50 + (100 * relevant) \div evidence.n)]]

\* AIService._query_gemini for one behaviour of the round trip; the prompt
\* of lines 752-770 carries the history, so the answer is one for that
\* history
_query_gemini(query, evidence, history, o) ==
    IF FormatEvidenceRaises(evidence, 50) \/ o # "ok"
    THEN _fallback_query(query, evidence)
    ELSE [raised |-> FALSE,
          result |-> [summary |-> [kind |-> "gemini", text |-> GeminiText,
                                   context |-> history],
                      confidence |->
                          _calculate_confidence(GeminiText, evidence)]]

\* AIService._query_openai for one behaviour of the client
_query_openai(query, evidence, history, o) ==
    IF FormatEvidenceRaises(evidence, 50) \/ o # "ok"
    THEN _fallback_query(query, evidence)
    ELSE [raised |-> FALSE,
          result |-> [summary |-> [kind |-> "openai", text |-> GeminiText,
                                   context |-> history],
                      confidence |->
                          _calculate_confidence(GeminiText, evidence)]]

\* a cache key that tells the histories of two calls apart
CacheKey_WithHistory(r) == <<r.query.text, r.evidence.ids, r.history>>

\* the cache key of process_natural_language_query: query text and the
\* sorted evidence ids (the md5 prefixes taken as injective)
CacheKey(r) == <<r.query.text, r.evidence.ids>>

CacheKeys == {CacheKey(r) : r \in Requests(CallerEvidence \cup AnyEvidence)}

NoEntry == [kind |-> "NoEntry"]

\* a call still running, a part not yet read, no embedded component
Running == [status |-> "running"]
NoPart == [kind |-> "none", text |-> NoText]
NoComponent == [type |-> "none"]

\* no call made yet; a request records the cache entry of its key at the
\* time of the call
NoRequest ==
    [query |-> [text |-> None, ambiguous_phrase |-> FALSE, short |-> FALSE,
                viz |-> FALSE, keywords |-> FALSE],
     evidence |-> [ids |-> None, n |-> 0, relevant |-> 0, shape |-> "ok"],
     history |-> None, entry |-> None, cached |-> NoEntry]

\* ---------------------------------------------------------------------
\* process_query_with_agent and process_natural_language_query, step by step
\* ---------------------------------------------------------------------

\* the locals of the tool loop
loopVars == <<first_part, part_idx, unread, tool_results, iterations,
              embedded_component>>

AgentInit ==
    /\ pc = "idle"
    /\ cfg \in Configs
    /\ req = NoRequest
    /\ first_part = NoPart
    /\ part_idx = 0
    /\ unread = 0
    /\ tool_results = <<>>
    /\ iterations = 0
    /\ embedded_component = NoComponent
    /\ reasoning_calls = <<>>
    /\ outcome = Running
    /\ except_at = "none"
    /\ cache = [k \in CacheKeys |-> NoEntry]

\* a view builds an AIService and calls one of its entry points
EnterCall(r, entry) ==
    /\ pc = "idle"
    /\ req' = [query |-> r.query, evidence |-> r.evidence,
               history |-> r.history, entry |-> entry,
               cached |-> cache[CacheKey(r)]]
    /\ UNCHANGED <<cfg, loopVars, reasoning_calls, outcome, except_at, cache,
                   convVars, toolVars,
                   graphVars, insightVars, pairVars>>

\* process_query_with_agent is called; line 220 sends a service without
\* Gemini or without agent mode to process_natural_language_query
CallAgent(evidence) ==
    \E r \in Requests(evidence) :
        /\ EnterCall(r, "process_query_with_agent")
        /\ pc' = IF ~cfg.use_gemini \/ ~cfg.enable_agent_mode
                 THEN "nlq" ELSE "ambiguity"

\* process_natural_language_query is called by a view
CallNLQ(evidence) ==
    \E r \in Requests(evidence) :
        /\ EnterCall(r, "process_natural_language_query")
        /\ pc' = "nlq"

\* return summary, confidence, embedded_component
Return(path, summary, confidence, embedded) ==
    /\ outcome' = [status |-> "returned", path |-> path, summary |-> summary,
                   confidence |-> confidence, embedded |-> embedded]
    /\ pc' = "done"

\* an exception leaves the entry point
Raise ==
    /\ outcome' = [status |-> "raised"]
    /\ pc' = "done"

\* lines 232-238: the ambiguity check and the clarification proposal
CheckAmbiguity ==
    /\ pc = "ambiguity"
    /\ LET a == _check_query_ambiguity(req.query, req.evidence)
       IN IF a.is_ambiguous /\ a.should_clarify
          THEN Return("clarification", [kind |-> "clarification"], 75,
                      NoComponent)
          ELSE pc' = "prepare" /\ UNCHANGED outcome
    /\ UNCHANGED <<cfg, req, loopVars, reasoning_calls, except_at, cache,
                   convVars, toolVars,
                   graphVars, insightVars, pairVars>>

\* lines 241-302: the registry, the evidence context, the prompt; an
\* exception of _format_evidence_for_ai lands in the except clause (502-507)
PreparePrompt ==
    /\ pc = "prepare"
    /\ IF FormatEvidenceRaises(req.evidence, 30)
       THEN pc' = "nlq" /\ except_at' = "prepare"
       ELSE pc' = "first_call" /\ UNCHANGED except_at
    /\ UNCHANGED <<cfg, req, loopVars, reasoning_calls, outcome, cache,
                   convVars, toolVars,
                   graphVars, insightVars, pairVars>>

\* the outcomes of a round trip that raise inside the try block
RaisingOutcomes == {"exception", "bad_json", "bad_candidate"}

\* lines 305-335: the first reasoning round trip; a status other than 200
\* returns the fallback at line 327, a response without candidates falls
\* through to line 500
FirstCall ==
    /\ pc = "first_call"
    /\ \E o \in CallOutcomes :
         /\ reasoning_calls' = Append(reasoning_calls,
                                      [call |-> "first", outcome |-> o,
                                       folded |-> 0])
         /\ pc' = IF o = "ok" THEN "loop" ELSE "nlq"
         /\ except_at' = IF o \in RaisingOutcomes THEN "first_call"
                         ELSE except_at
    /\ UNCHANGED <<cfg, req, loopVars, outcome, cache, convVars, toolVars,
                   graphVars, insightVars, pairVars>>

\* line 338: the for loop finds no further part
EndOfParts ==
    /\ pc = "loop"
    /\ pc' = "after_loop"
    /\ UNCHANGED <<cfg, req, loopVars, reasoning_calls, outcome, except_at,
                   cache, convVars, toolVars,
                   graphVars, insightVars, pairVars>>

\* a part with neither 'text' nor 'functionCall'
PlainPart == [kind |-> "empty", text |-> NoText]

\* the parts that request no tool: text parts and the part without either
\* key (past parts[0] the code treats the two alike)
PlainParts == {[kind |-> "text", text |-> t] : t \in FirstTexts}
              \cup {PlainPart}

\* lines 338-339: the next part is a text part, or a part with neither
\* 'text' nor 'functionCall'
ReadPlainPart ==
    /\ pc = "loop"
    /\ part_idx < MaxParts
    /\ \E p \in PlainParts :
         /\ part_idx > 0 => p = PlainPart
         /\ first_part' = IF part_idx = 0 THEN p ELSE first_part
    /\ part_idx' = part_idx + 1
    /\ UNCHANGED <<pc, cfg, req, unread, tool_results, iterations,
                   embedded_component, reasoning_calls, outcome, except_at,
                   cache, convVars, toolVars,
                   graphVars, insightVars, pairVars>>

\* lines 338-342: the next part cannot be read as a dict holding a
\* functionCall dict; the exception lands in the except clause (502-507)
ReadMalformedPart ==
    /\ pc = "loop"
    /\ part_idx < MaxParts
    /\ pc' = "nlq"
    /\ except_at' = "loop"
    /\ first_part' = IF part_idx = 0
                     THEN [kind |-> "malformed", text |-> NoText]
                     ELSE first_part
    /\ part_idx' = part_idx + 1
    /\ UNCHANGED <<cfg, req, unread, tool_results, iterations,
                   embedded_component, reasoning_calls, outcome, cache,
                   convVars, toolVars,
                   graphVars, insightVars, pairVars>>

\* lines 353-369: the embedded component after a tool result
EmbeddedAfter(embedded, tool_result) ==
    IF tool_result.success
    THEN CASE tool_result.data.type = "network" ->
                 [type |-> "network", data |-> "nodes and links"]
           [] tool_result.data.type = "timeline" ->
                 [type |-> "timeline", data |-> "events"]
           [] OTHER -> embedded
    ELSE embedded

\* the cap test off by one
CapReached_OffByOne(n) == n > max_tool_iterations

\* lines 371-373: if iterations >= self.max_tool_iterations: break
CapReached(n) == n >= max_tool_iterations

\* lines 339-373: the next part is a functionCall; the tool runs
ReadFunctionCall ==
    /\ pc = "loop"
    /\ part_idx < MaxParts
    /\ \E n \in RequestedNames, b \in ToolBehaviours :
         LET r == execute_tool(execution_log, n, b)
         IN /\ n \notin tool_methods => b = "returns"
            /\ execution_log' = r.log
            /\ last_result' = r.result
            /\ tool_raised' = (tool_raised \/ r.raised)
            /\ invocations' = Append(invocations,
                                     [tool |-> n, success |-> r.result.success,
                                      behaviour |-> b])
            /\ first_part' = IF part_idx = 0
                             THEN [kind |-> "functionCall", text |-> NoText]
                             ELSE first_part
            /\ part_idx' = part_idx + 1
            /\ IF r.raised
               THEN /\ pc' = "nlq"
                    /\ except_at' = "loop"
                    /\ UNCHANGED <<tool_results, embedded_component,
                                   iterations, unread>>
               ELSE /\ tool_results' = Append(tool_results, r.result)
                    /\ embedded_component' =
                           EmbeddedAfter(embedded_component, r.result)
                    /\ iterations' = iterations + 1
                    /\ UNCHANGED except_at
                    /\ IF CapReached(iterations + 1)
                       THEN /\ pc' = "after_loop"
                            /\ unread' \in 0..(MaxParts - part_idx - 1)
                       ELSE /\ pc' = "loop"
                            /\ UNCHANGED unread
    /\ UNCHANGED <<cfg, req, reasoning_calls, outcome, cache, convVars,
                   graphVars, insightVars, pairVars>>

\* AfterLoop asking for a tool that succeeded before it synthesises
AfterLoop_NeedsSuccess ==
    /\ pc = "after_loop"
    /\ pc' = IF \E i \in 1..Len(tool_results) : tool_results[i].success
             THEN "synthesis" ELSE "text_check"
    /\ UNCHANGED <<cfg, req, loopVars, reasoning_calls, outcome, except_at,
                   cache, convVars, toolVars,
                   graphVars, insightVars, pairVars>>

\* line 376: if tool_results
AfterLoop ==
    /\ pc = "after_loop"
    /\ pc' = IF tool_results # <<>> THEN "synthesis" ELSE "text_check"
    /\ UNCHANGED <<cfg, req, loopVars, reasoning_calls, outcome, except_at,
                   cache, convVars, toolVars,
                   graphVars, insightVars, pairVars>>

\* lines 377-463: the synthesis round trip; a status other than 200 and a
\* response without candidates fall through to line 466
Synthesis ==
    /\ pc = "synthesis"
    /\ \E o \in CallOutcomes :
         /\ reasoning_calls' = Append(reasoning_calls,
                                      [call |-> "synthesis", outcome |-> o,
                                       folded |-> Len(tool_results)])
         /\ except_at' = IF o \in RaisingOutcomes THEN "synthesis"
                         ELSE except_at
         /\ CASE o = "ok" ->
                   Return("synthesized",
                          [kind |-> "synthesized", text |-> SynthesisText,
                           tools_used |-> Len(tool_results)],
                          90, embedded_component)
              [] o \in {"non200", "no_candidates"} ->
                   pc' = "text_check" /\ UNCHANGED outcome
              [] OTHER ->
                   pc' = "nlq" /\ UNCHANGED outcome
    /\ UNCHANGED <<cfg, req, loopVars, cache, convVars, toolVars,
                   graphVars, insightVars, pairVars>>

\* lines 471-487: the summary of a text answer, wrapped in the
\* visualisation guidance when the query names a visualisation and the text
\* declines to draw one; the guidance is longer than 200 characters and
\* holds the word 'relationship'
DirectSummary(query, text) ==
    IF query.viz /\ text.cannot
    THEN [id |-> text.id, cites |-> text.cites, long |-> TRUE,
          pattern |-> TRUE, cannot |-> text.cannot]
    ELSE text

\* TextCheck giving a text answer the confidence of a synthesised one
TextCheck_FixedConfidence ==
    /\ pc = "text_check"
    /\ IF first_part.kind = "text"
       THEN LET summary == DirectSummary(req.query, first_part.text)
            IN Return("direct", [kind |-> "direct", text |-> summary],
                      90, embedded_component)
       ELSE pc' = "nlq" /\ UNCHANGED outcome
    /\ UNCHANGED <<cfg, req, loopVars, reasoning_calls, except_at, cache,
                   convVars, toolVars,
                   graphVars, insightVars, pairVars>>

\* lines 466-500: a text first part is the answer, else the fallback
TextCheck ==
    /\ pc = "text_check"
    /\ IF first_part.kind = "text"
       THEN LET summary == DirectSummary(req.query, first_part.text)
            IN Return("direct", [kind |-> "direct", text |-> summary],
                      _calculate_confidence(summary, req.evidence),
                      embedded_component)
       ELSE pc' = "nlq" /\ UNCHANGED outcome
    /\ UNCHANGED <<cfg, req, loopVars, reasoning_calls, except_at, cache,
                   convVars, toolVars,
                   graphVars, insightVars, pairVars>>

\* a lookup that takes any entry stored for the query text
NLQLookup_AnyEvidence ==
    /\ pc = "nlq"
    /\ IF \E k \in CacheKeys : k[1] = req.query.text /\ cache[k] # NoEntry
       THEN \E k \in CacheKeys :
                /\ k[1] = req.query.text
                /\ cache[k] # NoEntry
                /\ Return("nlq", cache[k].summary, cache[k].confidence,
                          NoComponent)
       ELSE pc' = "nlq_compute" /\ UNCHANGED outcome
    /\ UNCHANGED <<cfg, req, loopVars, reasoning_calls, except_at, cache,
                   convVars, toolVars,
                   graphVars, insightVars, pairVars>>

\* lines 710-722: the cache lookup of process_natural_language_query
NLQLookup ==
    /\ pc = "nlq"
    /\ IF cache[CacheKey(req)] # NoEntry
       THEN Return("nlq", cache[CacheKey(req)].summary,
                   cache[CacheKey(req)].confidence, NoComponent)
       ELSE pc' = "nlq_compute" /\ UNCHANGED outcome
    /\ UNCHANGED <<cfg, req, loopVars, reasoning_calls, except_at, cache,
                   convVars, toolVars,
                   graphVars, insightVars, pairVars>>

\* lines 726-738 with a keyword summary left out of the cache
NLQCompute_FallbackNotCached ==
    /\ pc = "nlq_compute"
    /\ \E o \in QueryOutcomes :
         LET r == IF cfg.use_gemini
                  THEN _query_gemini(req.query, req.evidence, req.history, o)
                  ELSE IF cfg.use_openai
                  THEN _query_openai(req.query, req.evidence, req.history, o)
                  ELSE _fallback_query(req.query, req.evidence)
             called == (cfg.use_gemini \/ cfg.use_openai)
                       /\ ~FormatEvidenceRaises(req.evidence, 50)
         IN /\ ~called => o = "ok"
            /\ reasoning_calls' =
                   IF called
                   THEN Append(reasoning_calls,
                               [call |-> IF cfg.use_gemini THEN "gemini"
                                         ELSE "openai",
                                outcome |-> o, folded |-> 0])
                   ELSE reasoning_calls
            /\ IF r.raised
               THEN Raise /\ UNCHANGED cache
               ELSE /\ cache' = IF r.result.summary.kind
                                      \in {"no_matches", "keyword_summary"}
                                THEN cache
                                ELSE [cache EXCEPT ![CacheKey(req)] = r.result]
                    /\ Return("nlq", r.result.summary, r.result.confidence,
                              NoComponent)
    /\ UNCHANGED <<cfg, req, loopVars, except_at, convVars, toolVars,
                   graphVars, insightVars, pairVars>>

\* lines 726-738: the answer is computed, cached for an hour and returned
NLQCompute ==
    /\ pc = "nlq_compute"
    /\ \E o \in QueryOutcomes :
         LET r == IF cfg.use_gemini
                  THEN _query_gemini(req.query, req.evidence, req.history, o)
                  ELSE IF cfg.use_openai
                  THEN _query_openai(req.query, req.evidence, req.history, o)
                  ELSE _fallback_query(req.query, req.evidence)
             called == (cfg.use_gemini \/ cfg.use_openai)
                       /\ ~FormatEvidenceRaises(req.evidence, 50)
         IN /\ ~called => o = "ok"
            /\ reasoning_calls' =
                   IF called
                   THEN Append(reasoning_calls,
                               [call |-> IF cfg.use_gemini THEN "gemini"
                                         ELSE "openai",
                                outcome |-> o, folded |-> 0])
                   ELSE reasoning_calls
            /\ IF r.raised
               THEN Raise /\ UNCHANGED cache
               ELSE /\ cache' = [cache EXCEPT ![CacheKey(req)] = r.result]
                    /\ Return("nlq", r.result.summary, r.result.confidence,
                              NoComponent)
    /\ UNCHANGED <<cfg, req, loopVars, except_at, convVars, toolVars,
                   graphVars, insightVars, pairVars>>

\* the hour of the cache entry has passed
CacheExpire ==
    /\ pc = "done"
    /\ \E k \in CacheKeys :
         /\ cache[k] # NoEntry
         /\ cache' = [cache EXCEPT ![k] = NoEntry]
    /\ UNCHANGED <<pc, cfg, req, loopVars, reasoning_calls, outcome,
                   except_at, convVars, toolVars,
                   graphVars, insightVars, pairVars>>

\* ---------------------------------------------------------------------
\* A second request of the same process: its view builds its own AIService
\* (same settings) and calls process_natural_language_query while the first
\* call is under way. Its arguments and result are its own locals; the
\* cache is the one object both calls reach.
\* ---------------------------------------------------------------------

NoOther == [pc |-> "idle", req |-> NoRequest, outcome |-> Running]

NoConcurrentCall == other = NoOther

\* lines 726-732: the branch the settings select, for one behaviour of the
\* round trip
ComputeResult(r, o) ==
    IF cfg.use_gemini
    THEN _query_gemini(r.query, r.evidence, r.history, o)
    ELSE IF cfg.use_openai
    THEN _query_openai(r.query, r.evidence, r.history, o)
    ELSE _fallback_query(r.query, r.evidence)

\* the cases of the second request
PairEvidence == {e \in CallerEvidence : e.ids \in {"case21", "case5"}}

\* the question both requests ask
PairQuestion == "who paid the courier in march and how much"

\* what the second request asks: the question of the first call, either in
\* another session on the same case (it brings its history) or on another
\* case
ConcurrentRequests ==
    {r \in Requests(PairEvidence) :
        /\ r.query.text = PairQuestion
        /\ (r.history = "prior") = (r.evidence.ids = "case21")}

\* lines 710-724 in the second request
ConcurrentLookup ==
    /\ other.pc = "idle"
    /\ \E r \in ConcurrentRequests :
         other' = IF cache[CacheKey(r)] # NoEntry
                  THEN [pc |-> "done", req |-> r,
                        outcome |->
                            [status |-> "returned",
                             summary |-> cache[CacheKey(r)].summary,
                             confidence |-> cache[CacheKey(r)].confidence]]
                  ELSE [pc |-> "nlq_compute", req |-> r, outcome |-> Running]
    /\ UNCHANGED <<agentVars, convVars, toolVars, graphVars, insightVars>>

\* lines 726-738 in the second request
ConcurrentCompute ==
    /\ other.pc = "nlq_compute"
    /\ \E o \in QueryOutcomes :
         LET r == ComputeResult(other.req, o)
         IN /\ (~cfg.use_gemini /\ ~cfg.use_openai) => o = "ok"
            /\ IF r.raised
               THEN /\ other' = [other EXCEPT !.pc = "done",
                                     !.outcome = [status |-> "raised"]]
                    /\ UNCHANGED cache
               ELSE /\ cache' = [cache EXCEPT
                                     ![CacheKey(other.req)] = r.result]
                    /\ other' = [other EXCEPT !.pc = "done",
                                     !.outcome =
                                         [status |-> "returned",
                                          summary |-> r.result.summary,
                                          confidence |->
                                              r.result.confidence]]
    /\ UNCHANGED <<pc, cfg, req, loopVars, reasoning_calls, outcome,
                   except_at, convVars, toolVars, graphVars, insightVars>>

AgentSteps ==
    \/ CheckAmbiguity
    \/ PreparePrompt
    \/ FirstCall
    \/ EndOfParts
    \/ ReadPlainPart
    \/ ReadMalformedPart
    \/ ReadFunctionCall
    \/ AfterLoop
    \/ Synthesis
    \/ TextCheck
    \/ NLQLookup
    \/ NLQCompute
    \/ CacheExpire

\* =====================================================================
\* AIService.generate_insights
\* =====================================================================

\* patterns[:8]
PatternCap == 8
\* len(unique_matches) >= 2
UniqueThreshold == 2
\* freq >= 3
FrequentThreshold == 3
\* len(timestamps) > 10
SpikeMinimum == 10
\* len(late_night) > 3
LateNightMinimum == 3

\* the keys of regex_patterns, in the order of the dict literal
regex_patterns ==
    <<"crypto_address", "bank_account", "amount", "phone", "email",
      "ip_address", "meeting_reference">>

\* A content is a text of words joined by ' and '; a word is a number:
\*    0 'hello'
\*    1 '0xabcdef...abcd' (0x and 40 hex digits)   2 the same in upper case
\*    3 '12345678'    4 '87654321'
\*    5 '$100'        6 '$250'
\*    7 'a@b.co'      8 'c@d.org'
\*    9 '10.0.0.1'   10 '10.0.0.2'
\*   11 'meet'       12 'Meet'
\* WordFamilies[w] holds the patterns that re.findall(pattern, text,
\* re.IGNORECASE) finds in the word w; each finds the whole word once, and
\* in a text it finds the words it finds alone, in their order (an 8 digit
\* number and a dotted quad also fit the phone pattern; 'meet' and 'Meet'
\* both match and are two strings).
WordFamilies ==
    << {"crypto_address"}, {"crypto_address"},
       {"bank_account", "phone"}, {"bank_account", "phone"},
       {"amount"}, {"amount"},
       {"email"}, {"email"},
       {"phone", "ip_address"}, {"phone", "ip_address"},
       {"meeting_reference"}, {"meeting_reference"} >>

\* re.findall(pattern_info['pattern'], content, re.IGNORECASE)
findall(pattern_name, content) ==
    SelectSeq(content, LAMBDA w : w # 0 /\ pattern_name \in WordFamilies[w])

\* An evidence record as _detect_patterns reads it: content is
\* item.get('content', '') (<<>> when absent), entities the 'type:value'
\* keys of item.get('entities', []) as numbers, timestamp the hour the
\* timestamp falls in, counted from midnight of the first day (27 is 03:00
\* of the second day), or 0 when it is absent or fromisoformat rejects it.
InsightKinds ==
    { [content |-> <<1, 2, 3, 4, 5, 6, 7, 8, 9, 10, 11>>,
       entities |-> <<1, 2>>, timestamp |-> 32],
      [content |-> <<1, 3, 5, 7, 11>>, entities |-> <<1, 2>>,
       timestamp |-> 0],
      [content |-> <<1, 1, 7, 7>>, entities |-> <<1>>, timestamp |-> 27],
      [content |-> <<9, 11, 12>>, entities |-> <<3>>, timestamp |-> 50],
      [content |-> <<>>, entities |-> <<1, 1, 1, 2, 2, 2>>, timestamp |-> 0],
      [content |-> <<0, 2, 8>>, entities |-> <<>>, timestamp |-> 33] }

\* a dozen records without text, by the hours of their timestamps
Timed(hours) ==
    AsList([i \in 1..Len(hours) |->
               [content |-> <<>>, entities |-> <<>>, timestamp |-> hours[i]]])

\* nine records within one hour of the night and three in the morning;
\* twelve records spread two to the hour; twelve records of which six fall
\* in one hour and the others in an hour each; sixteen records with an hour
\* of five, a later hour of six and five single ones
InsightBulks ==
    { <<>>,
      Timed(<<27, 27, 32, 27, 27, 27, 33, 27, 27, 27, 34, 27>>),
      Timed(<<32, 32, 33, 33, 34, 34, 35, 35, 36, 36, 37, 37>>),
      Timed(<<40, 41, 56, 56, 42, 56, 56, 43, 56, 44, 56, 45>>),
      Timed(<<60, 60, 61, 62, 60, 62, 63, 62, 60, 62, 64, 62, 60, 65, 62,
              66>>) }

SeqRange(s) == {s[i] : i \in 1..Len(s)}

\* pattern_matches[pattern_name] once the loop at 1729-1737 is over: the
\* matches of every record, in record order
RECURSIVE Matches(_, _, _, _)
Matches(items, pattern_name, lo, hi) ==
    IF lo > hi THEN <<>>
    ELSE IF lo = hi THEN findall(pattern_name, items[lo].content)
    ELSE LET mid == (lo + hi) \div 2
         IN Matches(items, pattern_name, lo, mid)
            \o Matches(items, pattern_name, mid + 1, hi)

\* the keys of pattern_matches in insertion order: a key enters at the
\* first record in which its pattern matches, and within a record in the
\* order of regex_patterns
MatchedPatterns(items) ==
    LET n == Len(regex_patterns)
        steps == AsList([k \in 1..(Len(items) * n) |->
                            [item |-> ((k - 1) \div n) + 1,
                             pattern_name |-> regex_patterns[((k - 1) % n) + 1]]])
        inserts == SelectSeq(steps, LAMBDA s :
                     /\ findall(s.pattern_name, items[s.item].content) # <<>>
                     /\ \A j \in 1..(s.item - 1) :
                          findall(s.pattern_name, items[j].content) = <<>>)
    IN AsList([k \in 1..Len(inserts) |-> inserts[k].pattern_name])

\* the matches taken one per occurrence
UniqueMatches_Repeats(matches) == {<<i, matches[i]>> : i \in 1..Len(matches)}

\* set(matches)
UniqueMatches(matches) == SeqRange(matches)

\* A finding: title, confidence and the metadata that tell findings apart
\* (pattern_type and unique_count for a regex finding, subject for the
\* entity or the hour, count for total_count / frequency / event_count).
\* The samples of line 1752 are left out: they follow the order of a set.
Finding(title, pattern_type, unique_count, count, subject, confidence) ==
    [title |-> title, pattern_type |-> pattern_type,
     unique_count |-> unique_count, count |-> count, subject |-> subject,
     confidence |-> confidence]

\* lines 1740-1754
RegexFindings(items) ==
    LET keys == MatchedPatterns(items)
        significant == SelectSeq(keys, LAMBDA pattern_name :
            Cardinality(UniqueMatches(Matches(items, pattern_name,
                                              1, Len(items))))
                >= UniqueThreshold)
    IN AsList([k \in 1..Len(significant) |->
          LET matches == Matches(items, significant[k], 1, Len(items))
              unique_count == Cardinality(UniqueMatches(matches))
          IN Finding("Pattern Detected", significant[k], unique_count,
                     Len(matches), 0, Min(90, 60 + unique_count * 5))])

\* the entities of every record, in record order (the loops at 1758-1759)
RECURSIVE EntityMentions(_, _, _)
EntityMentions(items, lo, hi) ==
    IF lo > hi THEN <<>>
    ELSE IF lo = hi THEN items[lo].entities
    ELSE LET mid == (lo + hi) \div 2
         IN EntityMentions(items, lo, mid) \o EntityMentions(items, mid + 1, hi)

\* the keys of a dict filled with d[k] = d.get(k, 0) + 1 over the list s,
\* in insertion order
CountedKeys(s) ==
    LET firsts == SelectSeq(AsList([i \in 1..Len(s) |-> i]),
                            LAMBDA i : \A j \in 1..(i - 1) : s[j] # s[i])
    IN AsList([k \in 1..Len(firsts) |-> s[firsts[k]]])

\* and the count it holds for the key
CountOf(s, key) == Cardinality({i \in 1..Len(s) : s[i] = key})

\* lines 1757-1772
FrequencyFindings(items) ==
    LET mentions == EntityMentions(items, 1, Len(items))
        frequent == SelectSeq(CountedKeys(mentions), LAMBDA key :
                        CountOf(mentions, key) >= FrequentThreshold)
    IN AsList([k \in 1..Len(frequent) |->
          LET freq == CountOf(mentions, frequent[k])
          IN Finding("Frequent", None, 0, freq, frequent[k],
                     Min(90, 50 + freq * 10))])

\* the timestamps that parse (1777-1783 and 1820-1825)
Timestamps(items) ==
    LET parsed == SelectSeq(items, LAMBDA item : item.timestamp # 0)
    IN AsList([i \in 1..Len(parsed) |-> parsed[i].timestamp])

\* the first spike in the order of hour_windows, without the sort
SpikeFindings_Unsorted(items) ==
    LET timestamps == Timestamps(items)
        hour_windows == CountedKeys(timestamps)
        spikes == SelectSeq(hour_windows, LAMBDA hour_key :
                      CountOf(timestamps, hour_key) * Len(hour_windows)
                          > Len(timestamps) * 2)
    IN IF Len(timestamps) > SpikeMinimum /\ spikes # <<>>
       THEN <<Finding("Unusual Activity Spike Detected", None, 0,
                      CountOf(timestamps, spikes[1]), spikes[1], 75)>>
       ELSE <<>>

\* lines 1784-1806: v > avg_per_hour * 2 with avg_per_hour = len(timestamps)
\* / len(hour_windows), the stable sort by count and its first entry
SpikeFindings(items) ==
    LET timestamps == Timestamps(items)
        hour_windows == CountedKeys(timestamps)
        spikes == SelectSeq(hour_windows, LAMBDA hour_key :
                      CountOf(timestamps, hour_key) * Len(hour_windows)
                          > Len(timestamps) * 2)
        sorted == SortDescending(spikes,
                      AsList([i \in 1..Len(spikes) |->
                                 CountOf(timestamps, spikes[i])]))
    IN IF Len(timestamps) > SpikeMinimum /\ spikes # <<>>
       THEN <<Finding("Unusual Activity Spike Detected", None, 0,
                      CountOf(timestamps, sorted[1]), sorted[1], 75)>>
       ELSE <<>>

\* AIService._detect_patterns
_detect_patterns(items) ==
    Take(RegexFindings(items) \o FrequencyFindings(items)
             \o SpikeFindings(items),
         PatternCap)

\* AIService._detect_anomalies
_detect_anomalies(items) ==
    LET timestamps == Timestamps(items)
        late_night == SelectSeq(timestamps, LAMBDA ts :
                          ts % 24 >= 23 \/ ts % 24 <= 5)
    IN IF Len(late_night) > LateNightMinimum
       THEN <<Finding("Unusual Activity Hours", None, 0, Len(late_night),
                      0, 70)>>
       ELSE <<>>

\* an entry of the list generate_insights returns
Insight(type, finding) ==
    [type |-> type, title |-> finding.title,
     confidence |-> finding.confidence, metadata |-> finding]

\* AIService.generate_insights
generate_insights(items) ==
    LET found == _detect_patterns(items)
        anomalies == _detect_anomalies(items)
    IN AsList([i \in 1..Len(found) |-> Insight("pattern", found[i])])
       \o AsList([i \in 1..Len(anomalies) |->
                     Insight("anomaly", anomalies[i])])

\* generate_insights has not returned
NotReturned == [returned |-> FALSE, value |-> <<>>]

\* no generate_insights call is made
NoInsights ==
    /\ evidence_items = <<>>
    /\ patterns = <<>>
    /\ insights = NotReturned

\* the evidence list a generate_insights call is made with
InsightsInit ==
    /\ \E n \in 0..MaxInsightItems, bulk \in InsightBulks :
         \E base \in [1..n -> InsightKinds] :
             \E front \in 0..n :
                 evidence_items = SubSeq(base, 1, front) \o bulk
                                      \o SubSeq(base, front + 1, n)
    /\ patterns = <<>>
    /\ insights = NotReturned

\* the call: since the list is only read, its result is that of the list
\* the call was made with
GenerateInsights ==
    /\ ~insights.returned
    /\ patterns' = _detect_patterns(evidence_items)
    /\ insights' = [returned |-> TRUE,
                    value |-> generate_insights(evidence_items)]
    /\ UNCHANGED evidence_items
    /\ UNCHANGED <<convVars, toolVars, graphVars, agentVars, pairVars>>

\* =====================================================================
\* Specifications
\* =====================================================================

Idle ==
    /\ pc = "idle" /\ cfg = [use_gemini |-> FALSE, use_openai |-> FALSE,
                             enable_agent_mode |-> FALSE]
    /\ req = NoRequest /\ first_part = NoPart /\ part_idx = 0 /\ unread = 0
    /\ tool_results = <<>> /\ iterations = 0 /\ embedded_component = NoComponent
    /\ reasoning_calls = <<>> /\ outcome = Running /\ except_at = "none"
    /\ cache = [k \in CacheKeys |-> NoEntry]

InitConv == ConvInit /\ ToolInit /\ Idle /\ NoInsights /\ NoConcurrentCall
NextConv == AddExchange
SpecConv == InitConv /\ [][NextConv]_vars

ConvIdle ==
    /\ max_exchanges = 0 /\ exchanges = <<>> /\ query_count = 0
    /\ clock = 0 /\ added = <<>>
    /\ tracked_entities = [e \in EntityIds |-> 0]
    /\ established_facts = {} /\ fact_log = <<>> /\ hash_seed = 1

InitTools == ToolInit /\ ConvIdle /\ Idle /\ NoInsights /\ NoConcurrentCall
NextTools == ExecuteTool
SpecTools == InitTools /\ [][NextTools]_vars

InitGraph == GraphInit /\ ConvIdle /\ Idle /\ NoInsights /\ NoConcurrentCall
NextGraph == GenerateNetworkGraph
SpecGraph == InitGraph /\ [][NextGraph]_vars

InitSearch == SearchInit /\ ConvIdle /\ Idle /\ NoInsights /\ NoConcurrentCall
NextSearch == SearchEvidence
SpecSearch == InitSearch /\ [][NextSearch]_vars

InitInsights ==
    InsightsInit /\ ToolInit /\ ConvIdle /\ Idle /\ NoConcurrentCall
NextInsights == GenerateInsights
SpecInsights == InitInsights /\ [][NextInsights]_vars

Init == AgentInit /\ ToolInit /\ ConvIdle /\ NoInsights /\ NoConcurrentCall
Next ==
    \/ CallAgent(CallerEvidence)
    \/ CallNLQ(CallerEvidence)
    \/ AgentSteps
Spec == Init /\ [][Next]_vars

InitAnyInput ==
    AgentInit /\ ToolInit /\ ConvIdle /\ NoInsights /\ NoConcurrentCall
NextAnyInput ==
    \/ CallAgent(AnyEvidence)
    \/ CallNLQ(AnyEvidence)
    \/ AgentSteps
SpecAnyInput == InitAnyInput /\ [][NextAnyInput]_vars

\* The cache is Django's process-wide cache: it outlives the AIService of
\* one request, so a call can find the entry an earlier call stored at line
\* 735. WarmRequest is that earlier call, WarmEntries what it can have
\* stored under the configuration c.
WarmEvidence == {e \in CallerEvidence : e.ids = "case21"}

WarmRequest ==
    CHOOSE r \in Requests(WarmEvidence) :
        ~r.query.ambiguous_phrase /\ ~r.query.short /\ r.history = "none"

WarmEntries(c) ==
    {_fallback_query(WarmRequest.query, WarmRequest.evidence).result}
    \cup IF c.use_gemini
         THEN {_query_gemini(WarmRequest.query, WarmRequest.evidence,
                             WarmRequest.history, "ok").result}
         ELSE IF c.use_openai
         THEN {_query_openai(WarmRequest.query, WarmRequest.evidence,
                             WarmRequest.history, "ok").result}
         ELSE {}

InitWarm ==
    /\ pc = "idle"
    /\ cfg \in Configs
    /\ req = NoRequest
    /\ first_part = NoPart
    /\ part_idx = 0
    /\ unread = 0
    /\ tool_results = <<>>
    /\ iterations = 0
    /\ embedded_component = NoComponent
    /\ reasoning_calls = <<>>
    /\ outcome = Running
    /\ except_at = "none"
    /\ \E entry \in WarmEntries(cfg) :
         cache = [k \in CacheKeys |->
                     IF k = CacheKey(WarmRequest) THEN entry ELSE NoEntry]
    /\ ToolInit
    /\ ConvIdle
    /\ NoInsights
    /\ NoConcurrentCall
NextWarm ==
    \/ CallAgent(WarmEvidence)
    \/ CallNLQ(WarmEvidence)
    \/ AgentSteps
SpecWarm == InitWarm /\ [][NextWarm]_vars

\* two requests at once, asking the same question: the first through either
\* entry point, the second through process_natural_language_query, both on
\* a cache with no entry
InitPair ==
    AgentInit /\ ToolInit /\ ConvIdle /\ NoInsights /\ NoConcurrentCall
NextPair ==
    \/ CallAgent(WarmEvidence) /\ req'.query.text = PairQuestion
    \/ CallNLQ(WarmEvidence) /\ req'.query.text = PairQuestion
    \/ AgentSteps
    \/ ConcurrentLookup
    \/ ConcurrentCompute
SpecPair == InitPair /\ [][NextPair]_vars

\* the steps of a call under way: each statement of the two entry points
\* runs to its end (every requests.post carries a timeout, every loop of the
\* tools is over a finite list), so a call that can take a step takes one
Progress ==
    \/ CheckAmbiguity
    \/ PreparePrompt
    \/ FirstCall
    \/ EndOfParts
    \/ ReadPlainPart
    \/ ReadMalformedPart
    \/ ReadFunctionCall
    \/ AfterLoop
    \/ Synthesis
    \/ TextCheck
    \/ NLQLookup
    \/ NLQCompute

InitFair == AgentInit /\ ToolInit /\ ConvIdle /\ NoInsights /\ NoConcurrentCall
NextFair ==
    \/ CallAgent(AnyEvidence)
    \/ AgentSteps
SpecFair == InitFair /\ [][NextFair]_vars /\ WF_vars(Progress)

\* =====================================================================
\* Properties
\* =====================================================================

\* C1: with max_exchanges = N >= 1, after n add_exchange calls the history
\* has length min(n, N), holds the most recent min(n, N) exchanges in
\* insertion order, and get_conversation_history_for_prompt lists their
\* user / assistant pairs in that order.
C1_RingBufferKeepsMostRecent ==
    max_exchanges >= 1 =>
        LET n == Len(added)
            k == Min(n, max_exchanges)
            prompt == get_conversation_history_for_prompt
        IN /\ Len(exchanges) = k
           /\ \A i \in 1..k : exchanges[i] = added[n - k + i]
           /\ Len(prompt) = 2 * k
           /\ \A i \in 1..k :
                /\ prompt[2 * i - 1].role = "user"
                /\ prompt[2 * i - 1].content = added[n - k + i].query
                /\ prompt[2 * i].role = "assistant"
                /\ prompt[2 * i].content.text = added[n - k + i].response.text

\* C1 witness: capacity 3 and five exchanges added, E3 E4 E5 are kept
C1_Witness ==
    /\ max_exchanges = 3
    /\ Len(added) = 5
    /\ exchanges = <<added[3], added[4], added[5]>>

\* the external reasoning calls of the agent loop that failed
FailedOutcomes == {"exception", "non200", "bad_json", "bad_candidate"}

AgentCallFailed ==
    \E i \in 1..Len(reasoning_calls) :
        /\ reasoning_calls[i].call \in {"first", "synthesis"}
        /\ reasoning_calls[i].outcome \in FailedOutcomes

MadeCall(c) ==
    \E i \in 1..Len(reasoning_calls) : reasoning_calls[i].call = c

\* C2: once the first or the synthesis reasoning call has failed (exception,
\* malformed payload, status other than 200), process_query_with_agent
\* returns the result of the non-agentic path, never an error and never an
\* agent-path answer.
C2_FailureAlwaysFallsBack ==
    (pc = "done" /\ AgentCallFailed) =>
        /\ outcome.status = "returned"
        /\ outcome.path = "nlq"

\* C3: no exception leaves process_query_with_agent or
\* process_natural_language_query, whatever the query, the evidence list and
\* the behaviour of the reasoning capability.
C3_NoExceptionPropagates ==
    pc = "done" => outcome.status = "returned"

\* C4: one call executes at most max_tool_iterations tools; when the cap is
\* hit the parts left are skipped and the synthesis call is made with the
\* results collected so far.
C4_ToolExecutionsCapped ==
    /\ Len(invocations) <= max_tool_iterations
    /\ Len(tool_results) <= max_tool_iterations
    /\ (pc = "done" /\ Len(invocations) = max_tool_iterations) =>
           \E i \in 1..Len(reasoning_calls) :
               /\ reasoning_calls[i].call = "synthesis"
               /\ reasoning_calls[i].folded = max_tool_iterations

\* C4 witness: the cap was hit with requests left unread, and the call ended
C4_Witness ==
    /\ pc = "done"
    /\ Len(invocations) = max_tool_iterations
    /\ unread > 0
    /\ MadeCall("synthesis")

\* C5: after k execute_tool calls the execution log holds k entries, one per
\* call in call order, with the tool name and the success flag of that call,
\* for successful, raising and unknown-tool calls alike.
C5_LogHoldsEveryCall ==
    /\ Len(execution_log) = Len(invocations)
    /\ \A i \in 1..Len(execution_log) :
         /\ execution_log[i].tool = invocations[i].tool
         /\ execution_log[i].success = invocations[i].success

AllToolsFailed ==
    /\ invocations # <<>>
    /\ \A i \in 1..Len(invocations) : ~invocations[i].success

\* C7: a failed tool invocation does not stop the loop and synthesis is
\* still attempted; when every executed tool failed and the first response
\* carries no direct text, the call returns the fallback path's result
\* instead of a Synthesized answer.
C7_AllToolsFailedFallsBack ==
    /\ ~tool_raised
    /\ (pc \in {"text_check", "done"} /\ tool_results # <<>>
            /\ except_at # "loop") => MadeCall("synthesis")
    /\ (pc = "done" /\ AllToolsFailed /\ first_part.kind # "text") =>
           (outcome.status = "returned" => outcome.path = "nlq")

AgentMode == cfg.use_gemini /\ cfg.enable_agent_mode

\* C8: in agent mode, an ambiguous query over more than 20 evidence items
\* returns the clarification proposal without an embedded component; no
\* tool runs and no external reasoning call is made on that path.
C8_ClarificationShortCircuits ==
    (/\ req.entry = "process_query_with_agent"
     /\ AgentMode
     /\ \/ req.query.ambiguous_phrase
        \/ (req.evidence.n > 50 /\ req.query.short)
     /\ req.evidence.n > 20) =>
        /\ invocations = <<>>
        /\ reasoning_calls = <<>>
        /\ pc \in {"ambiguity", "done"}
        /\ pc = "done" =>
             /\ outcome.status = "returned"
             /\ outcome.path = "clarification"
             /\ outcome.embedded = NoComponent

\* C8 witness: a clarification was returned for a short query over more than
\* 50 items that holds none of the ambiguous phrases
C8_Witness ==
    /\ pc = "done"
    /\ outcome.status = "returned"
    /\ outcome.path = "clarification"
    /\ ~req.query.ambiguous_phrase

\* C9 as stated: the synthesis call is issued if and only if at least one
\* tool was executed in this call, and a candidate it returns becomes the
\* summary with confidence 0.9.
C9_SynthesisIffToolExecuted ==
    pc = "done" /\ req.entry = "process_query_with_agent" =>
        /\ MadeCall("synthesis") <=> (invocations # <<>>)
        /\ (\E i \in 1..Len(reasoning_calls) :
               /\ reasoning_calls[i].call = "synthesis"
               /\ reasoning_calls[i].outcome = "ok") =>
             /\ outcome.status = "returned"
             /\ outcome.summary.kind = "synthesized"
             /\ outcome.summary.text = SynthesisText
             /\ outcome.confidence = 90

\* C9 amended: the synthesis call is issued if and only if at least one tool
\* was executed and the loop over the parts of the first response ended
\* without an exception; a candidate it returns becomes the summary with
\* confidence 0.9.
C9_SynthesisIffToolExecutedAndLoopCompleted ==
    pc = "done" /\ req.entry = "process_query_with_agent" =>
        /\ MadeCall("synthesis") <=>
               (invocations # <<>> /\ except_at # "loop")
        /\ (\E i \in 1..Len(reasoning_calls) :
               /\ reasoning_calls[i].call = "synthesis"
               /\ reasoning_calls[i].outcome = "ok") =>
             /\ outcome.status = "returned"
             /\ outcome.summary.kind = "synthesized"
             /\ outcome.summary.text = SynthesisText
             /\ outcome.confidence = 90

\* C9 witness: tools ran, the synthesis call returned a candidate
C9_Witness ==
    /\ pc = "done"
    /\ Len(invocations) >= 2
    /\ Len(reasoning_calls) = 2
    /\ reasoning_calls[2].call = "synthesis"
    /\ reasoning_calls[2].outcome = "ok"
    /\ outcome.confidence = 90

\* C10: a first response that is pure text and requests no tool is returned
\* as the answer after exactly one reasoning call: no tool runs, no second
\* call is made, no component is embedded, and the confidence is the value
\* of _calculate_confidence for the summary.
C10_DirectAnswer ==
    (/\ pc = "done"
     /\ first_part.kind = "text"
     /\ invocations = <<>>
     /\ except_at = "none") =>
        /\ outcome.status = "returned"
        /\ outcome.path = "direct"
        /\ outcome.summary.text.id = first_part.text.id
        /\ Len(reasoning_calls) = 1
        /\ reasoning_calls[1].call = "first"
        /\ execution_log = <<>>
        /\ outcome.embedded = NoComponent
        /\ outcome.confidence =
               _calculate_confidence(outcome.summary.text, req.evidence)

\* C10 witness: a text answer over more than 5 items was returned directly
\* with a confidence other than the base value
C10_Witness ==
    /\ pc = "done"
    /\ outcome.status = "returned"
    /\ outcome.path = "direct"
    /\ invocations = <<>>
    /\ req.evidence.n > 5
    /\ outcome.confidence = 95

\* the four terminal outcomes of process_query_with_agent: Clarification-
\* Requested, Synthesized, Direct-Answer, Fallback
TerminalPaths == {"clarification", "synthesized", "direct", "nlq"}

\* C11: every call of process_query_with_agent ends, and ends with a result
\* of exactly one of the four terminal outcomes, whatever the reasoning
\* capability returns and however it fails; no call hangs or ends without a
\* result.
C11_AgentCallTerminates ==
    /\ [](pc = "done" /\ req.entry = "process_query_with_agent"
            => /\ outcome.status = "returned"
               /\ outcome.path \in TerminalPaths)
    /\ (pc # "idle" /\ req.entry = "process_query_with_agent")
           ~> (pc = "done" /\ outcome.status = "returned")

\* the call under way found an unexpired entry under its cache key
CacheHit == req.cached # NoEntry

\* C12: a call of either entry point whose (query text, evidence ids) key
\* has an unexpired cache entry returns that entry, makes no external
\* reasoning call and executes no tool.
C12_CacheHitShortCircuits ==
    (pc = "done" /\ CacheHit) =>
        /\ outcome.status = "returned"
        /\ outcome.summary = req.cached.summary
        /\ outcome.confidence = req.cached.confidence
        /\ reasoning_calls = <<>>
        /\ invocations = <<>>

\* the summaries _fallback_query builds from keyword matches
KeywordSummaries == {"no_matches", "keyword_summary"}

\* C13: within one call of either entry point no external reasoning call
\* follows a failed one; the call goes straight to the keyword-based
\* fallback.
C13_NoCallAfterFailure ==
    \A i \in 1..Len(reasoning_calls) :
        reasoning_calls[i].outcome # "ok" =>
            /\ i = Len(reasoning_calls)
            /\ pc = "done" => /\ outcome.status = "returned"
                              /\ outcome.summary.kind \in KeywordSummaries

\* every external reasoning call of the call under way failed
AllCallsFailed ==
    \A i \in 1..Len(reasoning_calls) : reasoning_calls[i].outcome # "ok"

\* the summaries that open with a fixed heading and so are never empty:
\* the two of _fallback_query and the clarification proposal
HeadedSummaries == KeywordSummaries \cup {"clarification"}

\* C14: with every external reasoning call failing, both entry points
\* return, for every query and every non-empty evidence list, a non-empty
\* summary and a confidence within [0.3, 0.95].
C14_ForcedFailureResult ==
    (pc = "done" /\ req.evidence.n > 0 /\ AllCallsFailed) =>
        /\ outcome.status = "returned"
        /\ outcome.summary.kind \in HeadedSummaries
        /\ outcome.confidence >= 30
        /\ outcome.confidence <= 95

\* the call under way went through a fallback path: the service has no
\* reasoning capability, or a reasoning call of the agent loop failed
ViaFallbackPath ==
    /\ req.entry = "process_query_with_agent"
    /\ \/ ~cfg.use_gemini /\ ~cfg.use_openai
       \/ AgentCallFailed

\* C15: every result process_query_with_agent returns through a fallback
\* path has a confidence strictly below the 0.9 of a Synthesized result.
C15_FallbackBelowSynthesized ==
    (pc = "done" /\ outcome.status = "returned" /\ ViaFallbackPath) =>
        outcome.confidence < 90

\* ---- generate_network_graph

\* the positions of the records a call processes
Processed == 1..Min(Len(evidence_data), ItemCap)

\* the item-entities of a record, as a set
ItemEntitySet(item) ==
    {ItemEntities(item)[k] : k \in 1..Len(ItemEntities(item))}

\* the number of processed records that contain node a / both a and b
ItemsContaining(a) ==
    Cardinality({i \in Processed : a \in ItemEntitySet(evidence_data[i])})

ItemsContainingBoth(a, b) ==
    Cardinality({i \in Processed :
                    {a, b} \subseteq ItemEntitySet(evidence_data[i])})

\* C16: the mentions count of every returned node is the number of
\* processed evidence items that contain the entity, also when an item lists
\* the entity more than once.
C16_MentionsCountItems ==
    \A c \in 1..Len(graph_results) :
        \A i \in 1..Len(graph_results[c].nodes) :
            LET node == graph_results[c].nodes[i]
            IN node.mentions = ItemsContaining(node.id)

\* C17: the weight of every returned edge (A, B) is the number of items in
\* which both A and B are item-entities, whatever the order of the list,
\* and no unordered pair has two edges.
C17_WeightCountsItems ==
    \A c \in 1..Len(graph_results) :
        LET edges == graph_results[c].edges
        IN /\ \A i \in 1..Len(edges) :
                edges[i].weight =
                    ItemsContainingBoth(edges[i].source, edges[i].target)
           /\ \A i, j \in 1..Len(edges) :
                {edges[i].source, edges[i].target}
                    = {edges[j].source, edges[j].target} => i = j

\* the candidate nodes and edges of a call, before ranking
Candidates ==
    Pass1([nodes |-> <<>>, co |-> <<>>], evidence_data, 1,
          Min(Len(evidence_data), ItemCap))

\* the candidate edges whose two endpoints are among the nodes of result r
SurvivingEdges(r) ==
    LET ids == {r.nodes[i].id : i \in 1..Len(r.nodes)}
        co == Candidates.co
    IN {k \in 1..Len(co) : co[k].key[1] \in ids /\ co[k].key[2] \in ids}

\* C18: at most 30 nodes and 50 edges are returned; of more than 30
\* candidates the 30 with the most mentions are kept, ties going to the
\* earlier inserted; of more than 50 edges between kept nodes the 50
\* heaviest are kept; every returned edge joins two returned nodes.
C18_CapsKeepTheTop ==
    \A c \in 1..Len(graph_results) :
        LET r == graph_results[c]
            cand == Candidates.nodes
            co == Candidates.co
            ids == {r.nodes[i].id : i \in 1..Len(r.nodes)}
            kept == {k \in 1..Len(cand) : cand[k].id \in ids}
            surviving == SurvivingEdges(r)
            keys == {<<r.edges[i].source, r.edges[i].target>> :
                        i \in 1..Len(r.edges)}
            returned == {k \in surviving : co[k].key \in keys}
        IN /\ Len(r.nodes) = Min(NodeCap, Len(cand))
           /\ Cardinality(kept) = Len(r.nodes)
           /\ \A k \in kept : \A d \in (1..Len(cand)) \ kept :
                \/ cand[k].mentions > cand[d].mentions
                \/ cand[k].mentions = cand[d].mentions /\ k < d
           /\ \A i \in 1..Len(r.nodes) :
                \E k \in kept : cand[k] = r.nodes[i]
           /\ Len(r.edges) = Min(EdgeCap, Cardinality(surviving))
           /\ Cardinality(returned) = Len(r.edges)
           /\ \A k \in returned : \A d \in surviving \ returned :
                co[k].count >= co[d].count
           /\ \A i \in 1..Len(r.edges) :
                /\ r.edges[i].source \in ids
                /\ r.edges[i].target \in ids
                /\ \E k \in returned :
                     /\ co[k].key = <<r.edges[i].source, r.edges[i].target>>
                     /\ co[k].count = r.edges[i].weight

\* a call cut both lists: more than 30 candidates, one of the dropped ones
\* inserted before a kept one, and more than 50 edges between kept nodes
C18_Witness ==
    /\ graph_results # <<>>
    /\ LET cand == Candidates.nodes
           r == graph_results[1]
           ids == {r.nodes[i].id : i \in 1..Len(r.nodes)}
       IN /\ Len(cand) > NodeCap
          /\ Cardinality(SurvivingEdges(r)) > EdgeCap
          /\ \E k, d \in 1..Len(cand) :
               d < k /\ cand[k].id \in ids /\ cand[d].id \notin ids

UniqueAcross(pattern_name) ==
    {w \in UNION {SeqRange(evidence_items[i].content) :
                     i \in 1..Len(evidence_items)} :
        w # 0 /\ pattern_name \in WordFamilies[w]}

\* the places of the findings of a pattern family in what was returned
PatternFindings(pattern_name) ==
    {i \in 1..Len(patterns) : patterns[i].pattern_type = pattern_name}

PatternInsights(pattern_name) ==
    {i \in 1..Len(insights.value) :
        /\ insights.value[i].type = "pattern"
        /\ insights.value[i].metadata.pattern_type = pattern_name}

\* C20: in the findings _detect_patterns returns, and in the insights
\* generate_insights makes of them, a regex pattern family with exactly one
\* unique match in the evidence list has no finding and a family with two
\* or more unique matches has one, the list being cut to 8 findings.
C20_MinimumUniqueness ==
    insights.returned =>
        /\ Len(patterns) <= PatternCap
        /\ \A k \in 1..Len(regex_patterns) :
             LET pattern_name == regex_patterns[k]
                 unique == Cardinality(UniqueAcross(pattern_name))
             IN /\ unique = 1 =>
                      /\ PatternFindings(pattern_name) = {}
                      /\ PatternInsights(pattern_name) = {}
                /\ unique >= 2 =>
                      /\ Cardinality(PatternFindings(pattern_name)) = 1
                      /\ Cardinality(PatternInsights(pattern_name)) = 1

\* a call whose findings were cut to 8, with one family of a single unique
\* match seen twice and another of two unique matches
C20_Witness ==
    /\ insights.returned
    /\ Len(patterns) = PatternCap
    /\ Len(RegexFindings(evidence_items)) + Len(FrequencyFindings(evidence_items))
           + Len(SpikeFindings(evidence_items)) > PatternCap
    /\ \E k \in 1..Len(regex_patterns) :
         /\ Cardinality(UniqueAcross(regex_patterns[k])) = 1
         /\ Len(Matches(evidence_items, regex_patterns[k],
                        1, Len(evidence_items))) >= 2
         /\ PatternFindings(regex_patterns[k]) = {}
    /\ \E k \in 1..Len(regex_patterns) :
         /\ Cardinality(UniqueAcross(regex_patterns[k])) = 2
         /\ PatternFindings(regex_patterns[k]) # {}

\* the records of the call whose timestamp parses, and the hours they fall in
Parseable == {i \in 1..Len(evidence_items) : evidence_items[i].timestamp # 0}

HourWindows == {evidence_items[i].timestamp : i \in Parseable}

WindowCount(hour_key) ==
    Cardinality({i \in Parseable : evidence_items[i].timestamp = hour_key})

\* more than 10 timestamps parse and some window holds more than twice the
\* mean count per window
SpikePresent ==
    /\ Cardinality(Parseable) > SpikeMinimum
    /\ \E h \in HourWindows :
         WindowCount(h) * Cardinality(HourWindows) > 2 * Cardinality(Parseable)

\* the places of the spike findings in what _detect_patterns returned
SpikeReports ==
    {i \in 1..Len(patterns) :
        patterns[i].title = "Unusual Activity Spike Detected"}

\* one spike finding, naming a window no other window exceeds
LargestSpikeReported ==
    /\ Cardinality(SpikeReports) = 1
    /\ \A i \in SpikeReports :
         /\ patterns[i].subject \in HourWindows
         /\ patterns[i].count = WindowCount(patterns[i].subject)
         /\ \A h \in HourWindows : WindowCount(h) <= patterns[i].count

\* C21 as stated: with more than 10 parseable timestamps and a window whose
\* count exceeds twice the mean count per window, the findings returned by
\* _detect_patterns hold exactly one spike finding and it names the window
\* with the largest count.
C21_SpikeAlwaysReported ==
    (insights.returned /\ SpikePresent) => LargestSpikeReported

\* C21 amended: under the same condition the findings hold exactly one
\* spike finding, naming the window with the largest count, unless the
\* regex and frequency findings already fill the 8 places of the returned
\* list, in which case they hold none; without the condition they hold none.
C21_SpikeReportedUnlessCut ==
    insights.returned =>
        IF SpikePresent
              /\ Cardinality((1..Len(patterns)) \ SpikeReports) < PatternCap
        THEN LargestSpikeReported
        ELSE SpikeReports = {}

\* a call that reported the hour of six although an hour of five came first
C21_Witness ==
    /\ insights.returned
    /\ SpikePresent
    /\ LargestSpikeReported
    /\ \E i \in SpikeReports, h \in HourWindows :
         /\ h # patterns[i].subject
         /\ WindowCount(h) * Cardinality(HourWindows) > 2 * Cardinality(Parseable)
         /\ \E j \in Parseable :
              /\ evidence_items[j].timestamp = h
              /\ \A k \in Parseable :
                   evidence_items[k].timestamp = patterns[i].subject => j < k

\* C22: after every add_exchange established_facts holds at most 50 facts,
\* whatever number of facts one response contributes and whatever exchanges
\* came before.
C22_FactsCapped == Cardinality(established_facts) <= FactCap

\* a response that alone contributes more than 50 facts was added to a
\* store that held facts already, and 40 facts are left
C22_Witness ==
    /\ Len(added) >= 2
    /\ Len(NewFacts(added[Len(added)].response)) > FactCap
    /\ Len(NewFacts(added[1].response)) > 0
    /\ Cardinality(established_facts) = FactKeep

\* the response of the add_exchange call a step makes
StepResponse == added'[Len(added')].response

\* the call of the step brings the store above 50 facts
PushedAbove ==
    /\ added' # added
    /\ Cardinality(established_facts
                   \cup SeqRange(NewFacts(StepResponse))) > FactCap

\* the last n entries of a list
LastOf(seq, n) == SubSeq(seq, Len(seq) - Min(n, Len(seq)) + 1, Len(seq))

\* C23: when an add_exchange brings established_facts above 50, the store is
\* cut to exactly 40 facts and they are the 40 most recently established
\* ones, as a store in insertion order would keep.
C23_TrimKeepsMostRecent ==
    [][PushedAbove =>
          /\ Cardinality(established_facts') = FactKeep
          /\ established_facts' =
                 SeqRange(LastOf(Established(fact_log, established_facts,
                                             StepResponse),
                                 FactKeep))]_vars

\* the entities the texts of the exchanges added so far name
MentionedEntities ==
    UNION {SeqRange(EntityMatches(added[i].query))
               \cup SeqRange(EntityMatches(added[i].response)) :
           i \in 1..Len(added)}

\* C26: after any sequence of add_exchange calls
\* should_offer_proactive_summary is true exactly when the number of
\* exchanges added is a positive multiple of 5 or at least 10 entities are
\* tracked; once 10 are tracked it is true after every later exchange.
C26_ProactiveSummaryTrigger ==
    /\ [](/\ query_count = Len(added)
          /\ should_offer_proactive_summary
                <=> \/ Len(added) > 0 /\ Len(added) % 5 = 0
                    \/ Cardinality(MentionedEntities) >= 10)
    /\ [][TrackedCount >= 10 => should_offer_proactive_summary']_vars

\* four exchanges, ten entities tracked since the third: the summary is
\* offered although 4 is no multiple of 5
C26_Witness ==
    /\ Len(added) = 4
    /\ Cardinality(UNION {SeqRange(EntityMatches(added[i].query))
                              \cup SeqRange(EntityMatches(added[i].response)) :
                          i \in 1..3}) >= 10
    /\ should_offer_proactive_summary

\* the keys every execute_tool result is to carry
ResultKeys ==
    {"success", "tool_name", "execution_time", "timestamp", "user_message"}

\* C24: every result execute_tool returns, for a tool that succeeded, one
\* that raised and an unknown name alike, holds success, tool_name,
\* execution_time, timestamp and user_message, with data when success is
\* true and error when it is false.
C24_ResultShape ==
    invocations # <<>> =>
        /\ ResultKeys \subseteq DOMAIN last_result
        /\ last_result.success = TRUE => "data" \in DOMAIN last_result
        /\ last_result.success = FALSE => "error" \in DOMAIN last_result

\* the limit a search_evidence call was made with
LimitOf(params) == IF params.has_limit THEN params.limit ELSE DefaultLimit

\* C27: search_evidence returns at most limit items (50 when none is
\* passed) for every limit passed, and they are the first matching records
\* in evidence order, each satisfying the query, type and date filters.
C27_SearchWithinLimit ==
    \A c \in 1..Len(search_calls) :
        LET params == search_calls[c].params
            found == search_calls[c].result.evidence
            matching == SelectSeq(evidence_data,
                                  LAMBDA item : PassesFilters(item, params))
        IN /\ Len(found) <= LimitOf(params)
           /\ Len(found) <= Len(matching)
           /\ found = SubSeq(matching, 1, Len(found))

\* C28: _calculate_confidence returns 0.7, plus 0.1 if the text cites an
\* evidence id of the input set, plus 0.1 if the text is longer than 200
\* characters, plus 0.05 if at least 5 evidence items were available and
\* the text mentions pattern, connection or relationship, capped at 0.95;
\* the value lies in [0.7, 0.95]. Stated of the direct answers, whose
\* confidence is the value of _calculate_confidence for the summary.
C28_ConfidenceHeuristic ==
    (/\ pc = "done"
     /\ outcome.status = "returned"
     /\ outcome.path = "direct"
     /\ invocations = <<>>) =>
        LET text == outcome.summary.text
            cited == IF text.cites /\ req.evidence.n > 0 THEN 10 ELSE 0
            detailed == IF text.long THEN 10 ELSE 0
            patterned == IF req.evidence.n >= 5 /\ text.pattern
                         THEN 5 ELSE 0
        IN /\ outcome.confidence = Min(95, 70 + cited + detailed + patterned)
           /\ outcome.confidence >= 70
           /\ outcome.confidence <= 95

\* the answer a call returned, as the pair line 735 stores
Answer == [summary |-> outcome.summary, confidence |-> outcome.confidence]

\* a reasoning call of the call under way ended in a failure
ReasoningFailed ==
    \E i \in 1..Len(reasoning_calls) : reasoning_calls[i].outcome # "ok"

\* C29: process_natural_language_query stores whatever answer it computed
\* under the key of the call, a keyword summary produced after a failed
\* reasoning call included; a call of it whose key holds an unexpired entry
\* returns that entry and makes no reasoning call, whatever the service
\* would answer now.
C29_FallbackCachedAndServed ==
    /\ []((pc = "done" /\ req.entry = "process_natural_language_query"
                /\ CacheHit) =>
            /\ outcome.status = "returned"
            /\ Answer = req.cached
            /\ reasoning_calls = <<>>)
    /\ [][(pc = "nlq_compute" /\ outcome'.status = "returned") =>
            cache'[CacheKey(req)] = Answer']_vars

\* a stored keyword summary is served by a service whose Gemini is configured
C29_Witness ==
    /\ pc = "done"
    /\ req.entry = "process_natural_language_query"
    /\ cfg.use_gemini
    /\ CacheHit
    /\ req.cached.summary.kind \in KeywordSummaries
    /\ Answer = req.cached
    /\ reasoning_calls = <<>>

\* a keyword summary computed after a failed reasoning call has been stored
C29_StoredAfterFailure ==
    /\ pc = "done"
    /\ outcome.status = "returned"
    /\ ReasoningFailed
    /\ outcome.summary.kind \in KeywordSummaries
    /\ cache[CacheKey(req)] = Answer

\* the call repeats the query text and the evidence ids of the earlier call
SameQueryAndEvidence ==
    /\ req.query.text = WarmRequest.query.text
    /\ req.evidence.ids = WarmRequest.evidence.ids

\* C30: a process_natural_language_query call with the query text and the
\* evidence ids of an earlier call whose entry has not expired returns the
\* answer that call stored, whatever its own conversation history, and
\* computes nothing: no reasoning call is made.
C30_HistoryIgnoredByCache ==
    (pc = "done" /\ req.entry = "process_natural_language_query"
         /\ SameQueryAndEvidence) =>
        /\ CacheHit
        /\ outcome.status = "returned"
        /\ Answer = req.cached
        /\ reasoning_calls = <<>>

\* an answer computed by Gemini without a history is returned to a call
\* that brings one
C30_Witness ==
    /\ pc = "done"
    /\ req.entry = "process_natural_language_query"
    /\ SameQueryAndEvidence
    /\ req.history # WarmRequest.history
    /\ req.cached.summary.kind = "gemini"
    /\ req.cached.summary.context = WarmRequest.history
    /\ Answer = req.cached

\* the answers a process_natural_language_query call of r computes when
\* no entry is stored under its key
OwnAnswers(r) ==
    {ComputeResult(r, o).result :
        o \in {o \in QueryOutcomes : ~ComputeResult(r, o).raised}}

\* the same, of any request with the query text and evidence ids of r
SameKeyAnswers(r) ==
    UNION {OwnAnswers(q) :
              q \in {q \in Requests(PairEvidence) :
                         /\ q.query.text = r.query.text
                         /\ q.evidence.ids = r.evidence.ids}}

\* what the second request returned
OtherAnswer ==
    [summary |-> other.outcome.summary,
     confidence |-> other.outcome.confidence]

====
